---- MODULE Spec2Model ----
(***************************************************************************)
(* Discrete-event kernel of the manufacturing-line simulation: three       *)
(* workstations and two inspectors driven by FacilitySimulation::run.      *)
(* Durations are f64 minutes in the source; here they are small positive   *)
(* integers.  A VecDeque<Duration> supply is kept as the number of entries *)
(* left; the value of the entry at the front is drawn when pop_front is    *)
(* called (the supplies are filled with independent values before the run, *)
(* and nothing reads an entry before it is popped).  Random::boolean is a  *)
(* drawn boolean.  A Rust panic (assert!, expect, unwrap, panic!) aborts   *)
(* the run: it is recorded in the variable panic.                          *)
(***************************************************************************)
EXTENDS Integers, Sequences, FiniteSets, TLC

\* ---- bounds of the model
MaxCount == 4       \* COMPONENT_COUNT, the entries of each supply, is at most this
BacklogCount == 7   \* COMPONENT_COUNT of the runs in which Inspector 1 falls behind

\* the values a duration is drawn from
DurSet == {1, 2}
\* the durations of the runs in which Inspector 1 falls behind
FastInspection == {1}
SlowInspection == {7}
SlowAssembly == {9, 22}

\* ---- Option<T>
None == <<>>
Some(x) == <<x>>
is_some(o) == o # <<>>
is_none(o) == o = <<>>
unwrap(o) == o[1]

\* ---- component.rs
Component_new(duration, number) ==
    [kind |-> number, duration |-> duration,
     start |-> None, end |-> None, queue_time |-> None]

is_finished(c) == is_some(c.end)

\* a faulty start_inspecting: the start is stamped one minute early
start_inspecting_early(c, ts) == [c EXCEPT !.start = Some(ts - 1)]

start_inspecting(c, ts) == [c EXCEPT !.start = Some(ts)]

\* the two assertions of finish_inspecting; "none" when both pass
finish_inspecting_check(c, now) ==
    IF is_some(c.end) THEN "Component already finished"
    ELSE IF unwrap(c.start) + c.duration - now > 0
         THEN "floating point arithmetic error threshold exceeded"
         ELSE "none"

\* a faulty finish_inspecting: the end is stamped one minute late
finish_inspecting_late(c, now) == [c EXCEPT !.end = Some(now + 1)]

finish_inspecting(c, now) == [c EXCEPT !.end = Some(now)]

\* a faulty set_enqueued: the enqueue time is not recorded
set_enqueued_unstamped(c, now) == c

set_enqueued(c, now) == [c EXCEPT !.queue_time = Some(now)]

\* ---- product.rs
\* Product::from with the assertions of new_p1 / new_p2 / new_p3
Product_from_check(first, second) ==
    IF is_none(second)
    THEN IF first.kind = 1 /\ is_finished(first) THEN "none"
         ELSE "new_p1 assertion failed"
    ELSE IF unwrap(second).kind = 1 THEN "Product::from panic"
    ELSE IF first.kind = 1 /\ is_finished(first) /\ is_finished(unwrap(second))
         THEN "none"
         ELSE "new_p2/new_p3 assertion failed"

Product_from(first, second, timestamp) ==
    [kind |-> IF is_none(second) THEN 1 ELSE unwrap(second).kind,
     first |-> first, second |-> second, timestamp |-> timestamp]

\* ---- workstation.rs: Type
EmptyBuffer == <<None, None>>

W1 == [id |-> 1, bufs |-> <<EmptyBuffer>>]
W2 == [id |-> 2, bufs |-> <<EmptyBuffer, EmptyBuffer>>]
W3 == [id |-> 3, bufs |-> <<EmptyBuffer, EmptyBuffer>>]

can_work(t) == \A k \in DOMAIN t.bufs : is_some(t.bufs[k][1])

present_count(buf) ==
    (IF is_some(buf[1]) THEN 1 ELSE 0) + (IF is_some(buf[2]) THEN 1 ELSE 0)

c1_in_waiting(t) == present_count(t.bufs[1])

\* called by Inspector 2 only, on W2 and W3 with a C2 or C3
matching_count(t, kind) ==
    IF kind = 1 THEN c1_in_waiting(t) ELSE present_count(t.bufs[2])

\* ---- workstation.rs: Workstation
\* assembly_durations and products are the lengths of the VecDeque and of the
\* Vec, buffer_states the number of snapshots pushed to the buffer-state log
Workstation_new(ws_type, n) ==
    [ws_type |-> ws_type, assembly_durations |-> n,
     current_duration |-> None, products |-> 0, buffer_states |-> 0]

is_working(w) == is_some(w.current_duration)

\* a faulty take_first_avail: the first slot is taken before the second
take_first_avail_oldest(buf) ==
    IF is_some(buf[1])
    THEN [comp |-> unwrap(buf[1]), buf |-> [buf EXCEPT ![1] = None]]
    ELSE [comp |-> unwrap(buf[2]), buf |-> [buf EXCEPT ![2] = None]]

\* a faulty take_first_avail: the slot it takes from is not emptied
take_first_avail_keeps(buf) ==
    [comp |-> IF is_some(buf[2]) THEN unwrap(buf[2]) ELSE unwrap(buf[1]), buf |-> buf]

take_first_avail(buf) ==
    IF is_some(buf[2])
    THEN [comp |-> unwrap(buf[2]), buf |-> [buf EXCEPT ![2] = None]]
    ELSE [comp |-> unwrap(buf[1]), buf |-> [buf EXCEPT ![1] = None]]

\* assemble: [ws, product, panic]
assemble(w, timestamp) ==
    IF ~can_work(w.ws_type)
    THEN [ws |-> w, product |-> None, panic |-> "assemble called but WS could not work"]
    ELSE LET t1 == take_first_avail(w.ws_type.bufs[1])
             two == w.ws_type.id # 1
             t2 == IF two THEN take_first_avail(w.ws_type.bufs[2])
                   ELSE [comp |-> t1.comp, buf |-> EmptyBuffer]
             second == IF two THEN Some(t2.comp) ELSE None
             bufs == IF two THEN <<t1.buf, t2.buf>> ELSE <<t1.buf>>
         IN [ws |-> [w EXCEPT !.ws_type.bufs = bufs],
             product |-> Some(Product_from(t1.comp, second, timestamp)),
             panic |-> Product_from_check(t1.comp, second)]

\* a faulty add_to_buffer: a buffer with one component counts as full
add_to_buffer_one_slot(buf, c, now) ==
    IF is_some(buf[1]) THEN [ok |-> FALSE, buf |-> buf]
    ELSE [ok |-> TRUE, buf |-> [buf EXCEPT ![1] = Some(set_enqueued(c, now))]]

\* a faulty add_to_buffer: a component that finds the buffer full replaces
\* the one in the second slot
add_to_buffer_overwrites(buf, c, now) ==
    IF ~is_none(buf[2]) THEN [ok |-> FALSE, buf |-> [buf EXCEPT ![2] = Some(set_enqueued(c, now))]]
    ELSE IF is_some(buf[1])
         THEN [ok |-> TRUE, buf |-> [buf EXCEPT ![2] = Some(set_enqueued(c, now))]]
         ELSE [ok |-> TRUE, buf |-> [buf EXCEPT ![1] = Some(set_enqueued(c, now))]]

\* add_to_buffer closure of enqueue: (accepted, buffer)
add_to_buffer(buf, c, now) ==
    IF ~is_none(buf[2]) THEN [ok |-> FALSE, buf |-> buf]
    ELSE IF is_some(buf[1])
         THEN [ok |-> TRUE, buf |-> [buf EXCEPT ![2] = Some(set_enqueued(c, now))]]
         ELSE [ok |-> TRUE, buf |-> [buf EXCEPT ![1] = Some(set_enqueued(c, now))]]

\* a faulty decide_buffer: every component goes to the C1 buffer
decide_buffer_c1_only(t, c) == 1

\* the buffer the match of enqueue / decide_buffer selects
decide_buffer(t, c) == IF t.id = 1 THEN 1 ELSE IF c.kind = 1 THEN 1 ELSE 2

\* enqueue: [ok, ws, ws_type, ts, ws_is_working, panic]
enqueue(w, c, now) ==
    LET k == decide_buffer(w.ws_type, c)
        r == add_to_buffer(w.ws_type.bufs[k], c, now)
        w2 == [w EXCEPT !.ws_type.bufs[k] = r.buf,
                        !.buffer_states = IF r.ok THEN @ + 1 ELSE @]
    IN [ok |-> r.ok, ws |-> w2, ws_type |-> w2.ws_type, ts |-> now,
        ws_is_working |-> is_working(w),
        panic |-> IF is_finished(c) THEN "none" ELSE "enqueue of unfinished component"]

\* a faulty start: the assembly is recorded as begun three minutes before
\* start_time
start_backdated(w, start_time, d) ==
    IF is_some(w.current_duration)
    THEN [ws |-> w, panic |-> "WS which is already working was started"]
    ELSE IF w.assembly_durations = 0
    THEN [ws |-> w, panic |-> "WS was started but has no remaining duration"]
    ELSE [ws |-> [w EXCEPT !.assembly_durations = @ - 1,
                           !.current_duration = Some(<<start_time - 3, d>>)],
          panic |-> "none"]

\* start: [ws, panic]
start(w, start_time, d) ==
    IF is_some(w.current_duration)
    THEN [ws |-> w, panic |-> "WS which is already working was started"]
    ELSE IF w.assembly_durations = 0
    THEN [ws |-> w, panic |-> "WS was started but has no remaining duration"]
    ELSE [ws |-> [w EXCEPT !.assembly_durations = @ - 1,
                           !.current_duration = Some(<<start_time, d>>)],
          panic |-> "none"]

\* a faulty duration_until_next_event: the duration of the running assembly
\* is counted twice
Workstation_duration_until_next_event_twice(w, now) ==
    IF is_some(w.current_duration)
    THEN Some(unwrap(w.current_duration)[1] + 2 * unwrap(w.current_duration)[2] - now)
    ELSE None

Workstation_duration_until_next_event(w, now) ==
    IF is_some(w.current_duration)
    THEN Some(unwrap(w.current_duration)[1] + unwrap(w.current_duration)[2] - now)
    ELSE None

\* ---- event.rs: FacilityEvent
NoProduct == [kind |-> 0]
SimulationStarted == [type |-> "SimulationStarted", product |-> NoProduct, ws |-> 0, ts |-> 0]
Assembled(product, ws) == [type |-> "Assembled", product |-> product, ws |-> ws, ts |-> product.timestamp]
WorkstationStarted(ws, ts) == [type |-> "WorkstationStarted", product |-> NoProduct, ws |-> ws, ts |-> ts]

\* a faulty respond: the workstation never starts again by itself
assembled_no_restart(w, a, now, d) ==
    IF a.panic # "none"
    THEN [ws |-> w, event |-> None, panic |-> a.panic]
    ELSE [ws |-> [a.ws EXCEPT !.products = @ + 1, !.buffer_states = @ + 1],
          event |-> Some(Assembled(unwrap(a.product), a.ws.ws_type.id)),
          panic |-> "none"]

\* respond once assemble returned a = [ws, product, panic]: the product is
\* pushed and the workstation starts again if it can
assembled(w, a, now, d) ==
    IF a.panic # "none"
    THEN [ws |-> w, event |-> None, panic |-> a.panic]
    ELSE LET w2 == [a.ws EXCEPT !.products = @ + 1, !.buffer_states = @ + 1]
             s == IF can_work(w2.ws_type) THEN start(w2, now, d)
                  ELSE [ws |-> w2, panic |-> "none"]
         IN [ws |-> s.ws,
             event |-> Some(Assembled(unwrap(a.product), a.ws.ws_type.id)),
             panic |-> s.panic]

\* SimulationActor for Workstation: respond -> [ws, event, panic]
Workstation_respond(w, now, d) ==
    LET t == Workstation_duration_until_next_event(w, now) IN
    IF is_none(t)
    THEN [ws |-> w, event |-> None, panic |-> "WS respond called but isn't marked as working"]
    ELSE IF unwrap(t) > 0
    THEN [ws |-> w, event |-> None, panic |-> "time_until_done assertion failed"]
    ELSE assembled(w, assemble([w EXCEPT !.current_duration = None], now), now, d)

\* a faulty respond_to: a WorkstationStarted event starts every workstation
\* that can work, whatever its type
Workstation_respond_to_any(w, event, d) ==
    IF event.type = "WorkstationStarted" /\ can_work(w.ws_type)
    THEN start(w, event.ts, d)
    ELSE [ws |-> w, panic |-> "none"]

\* SimulationActor for Workstation: respond_to -> [ws, panic]
Workstation_respond_to(w, event, d) ==
    IF event.type = "WorkstationStarted" /\ event.ws = w.ws_type.id
    THEN start(w, event.ts, d)
    ELSE [ws |-> w, panic |-> "none"]

\* ---- inspector.rs
Inspector1_new(n) ==
    [durations_c1 |-> n, held_component |-> None,
     next_finish_time |-> None, is_blocked |-> TRUE]

Inspector2_new(n2, n3) ==
    [durations_c2 |-> n2, durations_c3 |-> n3, held_c2 |-> None, held_c3 |-> None,
     next_finish_time |-> None, is_blocked |-> TRUE]

\* The operators below act on s = [ws, ins1, ins2, panic]: the three workstations
\* the inspectors share (Rc<RefCell<Workstation>>), both inspectors, and the first
\* panic raised ("none" while the run is alive).  who is 1 (Inspector1) or 2.
\* in = [ws, c1, c2, c3, b] holds the entry at the front of each supply
\* (in.ws[k] for workstation k) and the boolean Random::boolean returns next.
Abort(s, msg) == IF s.panic = "none" THEN [s EXCEPT !.panic = msg] ELSE s

is_1(who) == who = 1

\* a faulty produces: no product counts as one Inspector 1 supplies
produces_not_p1(who, product) == ~is_1(who) /\ product.kind \in {2, 3}

\* Inspector::produces, on the kind of the product (1: P1, 2: P2, 3: P3)
produces(who, product) ==
    IF is_1(who) THEN product.kind = 1 ELSE product.kind \in {2, 3}

is_blocked(s, who) == IF is_1(who) THEN s.ins1.is_blocked ELSE s.ins2.is_blocked

set_unblocked(s, who) ==
    IF s.panic # "none" THEN s
    ELSE IF ~is_blocked(s, who) THEN Abort(s, "set_unblocked: assert!(self.is_blocked)")
    ELSE IF is_1(who) THEN [s EXCEPT !.ins1.is_blocked = FALSE]
         ELSE [s EXCEPT !.ins2.is_blocked = FALSE]

\* a faulty set_blocked: the flag is not set
set_blocked_skipped(s, who) == s

set_blocked(s, who) ==
    IF s.panic # "none" THEN s
    ELSE IF is_blocked(s, who) THEN Abort(s, "set_blocked: assert!(!self.is_blocked)")
    ELSE IF is_1(who) THEN [s EXCEPT !.ins1.is_blocked = TRUE]
         ELSE [s EXCEPT !.ins2.is_blocked = TRUE]

next_end_time(s, who) ==
    IF is_1(who) THEN s.ins1.next_finish_time ELSE s.ins2.next_finish_time

\* Inspector1 ignores finished_only
held_components(s, who, finished_only) ==
    IF is_1(who)
    THEN IF is_some(s.ins1.held_component) THEN <<0>> ELSE <<>>
    ELSE (IF is_some(s.ins2.held_c2)
             /\ ((finished_only /\ is_finished(unwrap(s.ins2.held_c2))) \/ ~finished_only)
          THEN <<2>> ELSE <<>>)
         \o
         (IF is_some(s.ins2.held_c3)
             /\ ((finished_only /\ is_finished(unwrap(s.ins2.held_c3))) \/ ~finished_only)
          THEN <<3>> ELSE <<>>)

\* the branch USE_NEW_STRATEGY = false of Inspector1::dispatch_component, which
\* the build does not take: WS3 only when strictly least, WS1 on every tie with it
Inspector1_target_old(awaiting) ==
    IF awaiting[3] < awaiting[2] /\ awaiting[3] < awaiting[1] THEN 3
    ELSE IF awaiting[2] <= awaiting[3] /\ awaiting[2] < awaiting[1] THEN 2
    ELSE IF awaiting[1] <= awaiting[2] /\ awaiting[1] <= awaiting[3] THEN 1
    ELSE 0

\* a faulty choice: WS1 is compared with WS2 only
Inspector1_target_ws1_first(awaiting) ==
    IF awaiting[1] <= awaiting[2] THEN 1
    ELSE IF awaiting[2] <= awaiting[3] THEN 2
    ELSE 3

\* the workstation Inspector1::dispatch_component picks (USE_NEW_STRATEGY = true)
\* for the C1 counts awaiting[1..3]; 0 is the "Bad branch" panic
Inspector1_target(awaiting) ==
    IF awaiting[1] < awaiting[2] /\ awaiting[1] < awaiting[3] THEN 1
    ELSE IF awaiting[2] <= awaiting[3] /\ awaiting[2] <= awaiting[1] THEN 2
    ELSE IF awaiting[3] <= awaiting[1] /\ awaiting[3] <= awaiting[2] THEN 3
    ELSE 0

Fail(s) == [s |-> s, ok |-> FALSE, ws_type |-> W1, ts |-> 0, ws_is_working |-> FALSE]

\* the EnqueueResult e of workstation k, with the workstation updated in s
enqueued(s, k, e) ==
    IF e.panic # "none" THEN Fail(Abort(s, e.panic))
    ELSE [s |-> [s EXCEPT !.ws[k] = e.ws], ok |-> e.ok, ws_type |-> e.ws_type,
          ts |-> e.ts, ws_is_working |-> e.ws_is_working]

\* self.ws[k].borrow_mut().enqueue(.., c, now)
enqueue_at(s, k, c, now) == enqueued(s, k, enqueue(s.ws[k], c, now))

Inspector1_dispatch_component(s, i, now) ==
    IF i # 0 THEN Fail(Abort(s, "assert!(i == 0)"))
    ELSE IF is_none(s.ins1.held_component)
    THEN Fail(Abort(s, "dispatch called but there is no component"))
    ELSE LET c == unwrap(s.ins1.held_component)
             awaiting == [k \in 1..3 |-> c1_in_waiting(s.ws[k].ws_type)]
             target == Inspector1_target(awaiting)
         IN IF ~is_finished(c) \/ c.kind # 1
            THEN Fail(Abort(s, "dispatch_component: assert!(c.is_finished())"))
            ELSE IF target = 0 THEN Fail(Abort(s, "Bad branch"))
            ELSE enqueue_at(s, target, c, now)

Inspector2_dispatch_component(s, i, now) ==
    LET c == IF i = 2 THEN unwrap(s.ins2.held_c2) ELSE unwrap(s.ins2.held_c3) IN
    IF is_finished(c)
    THEN IF c.kind = 2 THEN enqueue_at(s, 2, c, now)
         ELSE IF c.kind = 3 THEN enqueue_at(s, 3, c, now)
         ELSE Fail(Abort(s, "Inspector 2 does not inspect Component 1"))
    ELSE Fail(s)

dispatch_component(s, who, i, now) ==
    IF is_1(who) THEN Inspector1_dispatch_component(s, i, now)
    ELSE Inspector2_dispatch_component(s, i, now)

\* a faulty remove_component: the held slot is not cleared
remove_component_keeps(s, who, i) == s

remove_component(s, who, i) ==
    IF s.panic # "none" THEN s
    ELSE IF is_1(who)
    THEN IF i # 0 \/ is_none(s.ins1.held_component)
         THEN Abort(s, "remove_component assertion failed")
         ELSE [s EXCEPT !.ins1.held_component = None]
    ELSE IF i = 2 THEN [s EXCEPT !.ins2.held_c2 = None]
         ELSE [s EXCEPT !.ins2.held_c3 = None]

\* a faulty decide_next_component: with both supplies non-empty and a buffer
\* not full the choice is always random
decide_next_component_random(s, b) ==
    LET d2 == s.ins2.durations_c2
        d3 == s.ins2.durations_c3
        c2_count == matching_count(s.ws[2].ws_type, 2)
        c3_count == matching_count(s.ws[3].ws_type, 3)
    IN IF d2 = 0 /\ d3 # 0 THEN 3
       ELSE IF d2 # 0 /\ d3 = 0 THEN 2
       ELSE IF d2 # 0 /\ d3 # 0
       THEN IF c3_count = 2 /\ c2_count = 2 THEN 0
            ELSE IF b THEN 3 ELSE 2
       ELSE 0

\* a faulty decide_next_component: with both target buffers full the choice is
\* random instead of none
decide_next_component_no_rule3(s, b) ==
    LET d2 == s.ins2.durations_c2
        d3 == s.ins2.durations_c3
        c2_count == matching_count(s.ws[2].ws_type, 2)
        c3_count == matching_count(s.ws[3].ws_type, 3)
    IN IF d2 = 0 /\ d3 # 0 THEN 3
       ELSE IF d2 # 0 /\ d3 = 0 THEN 2
       ELSE IF d2 # 0 /\ d3 # 0
       THEN IF c2_count = 2 /\ c3_count # 2 /\ ~is_some(s.ins2.held_c3) THEN 3
            ELSE IF c3_count = 2 /\ c2_count # 2 /\ ~is_some(s.ins2.held_c2) THEN 2
            ELSE IF b THEN 3 ELSE 2
       ELSE 0

\* a faulty decide_next_component: the only kind with supply left is not
\* chosen when its target buffer is full
decide_next_component_checks_buffer(s, b) ==
    LET d2 == s.ins2.durations_c2
        d3 == s.ins2.durations_c3
        c2_count == matching_count(s.ws[2].ws_type, 2)
        c3_count == matching_count(s.ws[3].ws_type, 3)
    IN IF d2 = 0 /\ d3 # 0 THEN (IF c3_count = 2 THEN 0 ELSE 3)
       ELSE IF d2 # 0 /\ d3 = 0 THEN (IF c2_count = 2 THEN 0 ELSE 2)
       ELSE IF d2 # 0 /\ d3 # 0
       THEN IF c2_count = 2 /\ c3_count # 2 /\ ~is_some(s.ins2.held_c3) THEN 3
            ELSE IF c3_count = 2 /\ c2_count # 2 /\ ~is_some(s.ins2.held_c2) THEN 2
            ELSE IF c3_count = 2 /\ c2_count = 2 THEN 0
            ELSE IF b THEN 3 ELSE 2
       ELSE 0

\* the kind Inspector2::decide_next_component picks (0: none), b the random boolean
decide_next_component(s, b) ==
    LET d2 == s.ins2.durations_c2
        d3 == s.ins2.durations_c3
        c2_count == matching_count(s.ws[2].ws_type, 2)
        c3_count == matching_count(s.ws[3].ws_type, 3)
    IN IF d2 = 0 /\ d3 # 0 THEN 3
       ELSE IF d2 # 0 /\ d3 = 0 THEN 2
       ELSE IF d2 # 0 /\ d3 # 0
       THEN IF c2_count = 2 /\ c3_count # 2 /\ ~is_some(s.ins2.held_c3) THEN 3
            ELSE IF c3_count = 2 /\ c2_count # 2 /\ ~is_some(s.ins2.held_c2) THEN 2
            ELSE IF c3_count = 2 /\ c2_count = 2 THEN 0
            ELSE IF b THEN 3 ELSE 2
       ELSE 0

\* inspect_next: [s, some], some telling whether a component was returned
Inspector1_inspect_next(s, now, in) ==
    IF s.panic # "none" THEN [s |-> s, some |-> FALSE]
    ELSE IF s.ins1.is_blocked
    THEN [s |-> Abort(s, "inspect_next: assert!(!self.is_blocked())"), some |-> FALSE]
    ELSE IF s.ins1.durations_c1 > 0
    THEN [s |-> [s EXCEPT !.ins1.durations_c1 = @ - 1,
                          !.ins1.next_finish_time = Some(now + in.c1),
                          !.ins1.held_component =
                              Some(start_inspecting(Component_new(in.c1, 1), now))],
          some |-> TRUE]
    ELSE [s |-> [s EXCEPT !.ins1.next_finish_time = None], some |-> FALSE]

Inspector2_inspect_next(s, now, in) ==
    IF s.panic # "none" THEN [s |-> s, some |-> FALSE]
    ELSE LET kind == decide_next_component(s, in.b)
             d == IF kind = 2 THEN in.c2 ELSE in.c3
             component == start_inspecting(Component_new(d, kind), now)
         IN IF kind = 2
            THEN IF is_some(s.ins2.held_c2)
                 THEN [s |-> Abort(s, "assert!(matches!(self.held_c2, None))"), some |-> FALSE]
                 ELSE [s |-> [s EXCEPT !.ins2.durations_c2 = @ - 1,
                                       !.ins2.next_finish_time = Some(now + d),
                                       !.ins2.held_c2 = Some(component)],
                       some |-> TRUE]
            ELSE IF kind = 3
            THEN IF is_some(s.ins2.held_c3)
                 THEN [s |-> Abort(s, "assert!(matches!(self.held_c3, None))"), some |-> FALSE]
                 ELSE [s |-> [s EXCEPT !.ins2.durations_c3 = @ - 1,
                                       !.ins2.next_finish_time = Some(now + d),
                                       !.ins2.held_c3 = Some(component)],
                       some |-> TRUE]
            ELSE LET s1 == set_blocked(s, 2) IN
                 [s |-> IF s1.panic # "none" THEN s1
                        ELSE [s1 EXCEPT !.ins2.next_finish_time = None],
                  some |-> FALSE]

inspect_next(s, who, now, in) ==
    IF is_1(who) THEN Inspector1_inspect_next(s, now, in)
    ELSE Inspector2_inspect_next(s, now, in)

\* finish_inspection of the held component, with the assertions of finish_inspecting
finish_one(s, c, now) == Abort(s, finish_inspecting_check(c, now))

Inspector1_finish_inspection(s, now) ==
    IF is_none(s.ins1.held_component)
    THEN Abort(s, "no ins1 component to finish inspecting")
    ELSE LET c == unwrap(s.ins1.held_component)
             s1 == IF finish_inspecting_check(c, now) = "none" THEN s ELSE finish_one(s, c, now)
         IN IF s1.panic # "none" THEN s1
            ELSE [s1 EXCEPT !.ins1.held_component = Some(finish_inspecting(c, now))]

Inspector2_finish_inspection(s, now) ==
    IF is_some(s.ins2.held_c2)
    THEN LET c2 == unwrap(s.ins2.held_c2) IN
         IF ~is_finished(c2)
         THEN IF finish_inspecting_check(c2, now) # "none" THEN finish_one(s, c2, now)
              ELSE [s EXCEPT !.ins2.held_c2 = Some(finish_inspecting(c2, now))]
         ELSE s
    ELSE IF is_some(s.ins2.held_c3)
    THEN LET c3 == unwrap(s.ins2.held_c3) IN
         IF ~is_finished(c3)
         THEN IF finish_inspecting_check(c3, now) # "none" THEN finish_one(s, c3, now)
              ELSE [s EXCEPT !.ins2.held_c3 = Some(finish_inspecting(c3, now))]
         ELSE s
    ELSE s

finish_inspection(s, who, now) ==
    IF s.panic # "none" THEN s
    ELSE IF is_1(who) THEN Inspector1_finish_inspection(s, now)
    ELSE Inspector2_finish_inspection(s, now)

\* if expect_blocked { self.set_unblocked(now) }
unblock_if(s, who, expect_blocked) ==
    IF expect_blocked THEN set_unblocked(s, who) ELSE s

\* the for loop of place_routine over the indices idxs: [s, returned, event]
RECURSIVE place_loop(_, _, _, _, _, _)

\* the body of the for loop for the EnqueueResult r of the index Head(idxs)
place_match(r, who, now, expect_blocked, idxs, in) ==
    IF r.s.panic # "none" THEN [s |-> r.s, returned |-> TRUE, event |-> None]
    ELSE IF r.ok
    THEN [s |-> inspect_next(unblock_if(remove_component(r.s, who, Head(idxs)),
                                        who, expect_blocked),
                             who, now, in).s,
          returned |-> TRUE,
          event |-> IF ~r.ws_is_working /\ can_work(r.ws_type)
                    THEN Some(WorkstationStarted(r.ws_type.id, r.ts))
                    ELSE None]
    ELSE place_loop(r.s, who, now, expect_blocked, Tail(idxs), in)

place_loop(s, who, now, expect_blocked, idxs, in) ==
    IF idxs = <<>> THEN [s |-> s, returned |-> FALSE, event |-> None]
    ELSE place_match(dispatch_component(s, who, Head(idxs), now),
                     who, now, expect_blocked, idxs, in)

\* place_routine after the for loop ended with l = [s, returned, event]
place_rest(l, who, now, expect_blocked, in) ==
    IF l.returned THEN [s |-> l.s, event |-> l.event]
    ELSE IF ~is_1(who) /\ Len(held_components(l.s, who, FALSE)) < 2
    THEN [s |-> set_unblocked(inspect_next(l.s, who, now, in).s, who),
          event |-> None]
    ELSE IF ~expect_blocked
    THEN [s |-> set_blocked(l.s, who), event |-> None]
    ELSE [s |-> l.s, event |-> None]

\* place_routine: [s, event]
place_routine(s, who, now, expect_blocked, in) ==
    IF s.panic # "none" THEN [s |-> s, event |-> None]
    ELSE IF expect_blocked # is_blocked(s, who)
    THEN [s |-> Abort(s, IF expect_blocked THEN "place_routine: assert!(self.is_blocked())"
                         ELSE "place_routine: assert!(!self.is_blocked())"),
          event |-> None]
    ELSE place_rest(place_loop(s, who, now, expect_blocked,
                               held_components(s, who, TRUE), in),
                    who, now, expect_blocked, in)

\* inspect_next(..).expect("Failure loading inspection times ..") on n = [s, some]
expect_loaded(n) ==
    [s |-> IF n.s.panic = "none" /\ ~n.some
           THEN Abort(n.s, "Failure loading inspection times")
           ELSE n.s,
     event |-> None]

\* SimulationActor for &mut dyn Inspector: respond_to -> [s, event]
Inspector_respond_to(s, who, event, in) ==
    IF event.type = "Assembled"
    THEN IF produces(who, event.product) /\ is_blocked(s, who)
         THEN place_routine(s, who, event.product.timestamp, TRUE, in)
         ELSE [s |-> s, event |-> None]
    ELSE IF event.type = "SimulationStarted"
    THEN expect_loaded(inspect_next(set_unblocked(s, who), who, event.ts, in))
    ELSE [s |-> s, event |-> None]

\* SimulationActor for &mut dyn Inspector: respond -> [s, event]
Inspector_respond(s, who, now, in) ==
    IF is_blocked(s, who)
    THEN [s |-> Abort(s, "respond: assert!(!self.is_blocked())"), event |-> None]
    ELSE place_routine(finish_inspection(s, who, now), who, now, FALSE, in)

Inspector_duration_until_next_event(s, who, now) ==
    IF is_blocked(s, who) THEN None
    ELSE IF is_some(next_end_time(s, who)) THEN Some(unwrap(next_end_time(s, who)) - now)
    ELSE None

\* ---- main.rs: FacilitySimulation
VARIABLES
    clock,      \* FacilitySimulation.clock
    ws,         \* ws[1..3]: the workstations ws1, ws2, ws3 of run_iteration
    ins1,       \* inspector1
    ins2,       \* inspector2
    pc,         \* position in run: "start", "loop", "done", "panic"
    actor,      \* next_actor_index of the last iteration (1..5, 0 before the first)
    event,      \* the event the last completion handler returned (Option)
    delivered,  \* the actors the last broadcast reached, in order
    dropped,    \* the events respond_to returned during the last broadcast
    panic,      \* the panic that aborted the run, "none" otherwise
    supply,     \* the sizes of the supplies the run was constructed with
    result      \* the EnqueueResult of a direct call of Workstation::enqueue (Option)

vars == <<clock, ws, ins1, ins2, pc, actor, event, delivered, dropped, panic, supply, result>>

\* actors in registration order: WS1, WS2, WS3, Inspector 1, Inspector 2
NActors == Len(<<"ws1", "ws2", "ws3", "inspector1", "inspector2">>)

World == [ws |-> ws, ins1 |-> ins1, ins2 |-> ins2, panic |-> "none"]

\* Actor::duration_until_next_event of actor a in world s
duration_until_next_event(s, a, now) ==
    IF a <= 3 THEN Workstation_duration_until_next_event(s.ws[a], now)
    ELSE Inspector_duration_until_next_event(s, a - 3, now)

\* a faulty comparison: a later actor with an equal duration replaces the minimum
is_earlier_or_equal(val, min) ==
    is_some(val) /\ (is_none(min.dur) \/ unwrap(val) <= unwrap(min.dur))

\* the comparison of time_until_next_actor_event: val replaces the minimum so far
is_earlier(val, min) == is_some(val) /\ (is_none(min.dur) \/ unwrap(val) < unwrap(min.dur))

\* the for loop of time_until_next_actor_event from actor a on; min = [idx, dur, found]
RECURSIVE min_loop(_, _, _, _)
min_loop(s, now, a, min) ==
    IF a > NActors THEN min
    ELSE LET val == duration_until_next_event(s, a, now) IN
         IF is_earlier(val, min)
         THEN min_loop(s, now, a + 1, [idx |-> a, dur |-> val, found |-> TRUE])
         ELSE min_loop(s, now, a + 1, min)

\* None, or Some(<<index, duration>>)
time_until_next_actor_event(s, now) ==
    LET min == min_loop(s, now, 1, [idx |-> 1, dur |-> None, found |-> FALSE]) IN
    IF min.found THEN Some(<<min.idx, unwrap(min.dur)>>) ELSE None

\* Actor::respond_to of actor a: [s, event]
respond_to(s, a, ev, in) ==
    IF s.panic # "none" THEN [s |-> s, event |-> None]
    ELSE IF a <= 3
    THEN LET r == Workstation_respond_to(s.ws[a], ev, in.ws[a]) IN
         [s |-> IF r.panic # "none" THEN Abort(s, r.panic) ELSE [s EXCEPT !.ws[a] = r.ws],
          event |-> None]
    ELSE Inspector_respond_to(s, a - 3, ev, in)

\* a faulty broadcast: the last registered actor is left out
dispatch_order_short == [a \in 1..(NActors - 1) |-> a]

\* the actors a broadcast reaches, in order
dispatch_order == [a \in 1..NActors |-> a]

\* dispatch_to_simulation_actors over the actors order[k..]: [s, delivered, dropped]
\* (the value respond_to returns is not used by the loop)
RECURSIVE dispatch_loop(_, _, _, _, _)

\* the broadcast after actor order[k] returned o = [s, event] from respond_to
dispatched(r, o, k, order) ==
    [s |-> o.s,
     delivered |-> Append(r.delivered, order[k]),
     dropped |-> IF is_some(o.event) THEN Append(r.dropped, unwrap(o.event))
                 ELSE r.dropped]

dispatch_loop(r, ev, in, order, k) ==
    IF k > Len(order) \/ r.s.panic # "none" THEN r
    ELSE dispatch_loop(dispatched(r, respond_to(r.s, order[k], ev, in), k, order),
                       ev, in, order, k + 1)

dispatch_to_simulation_actors(s, ev, in) ==
    dispatch_loop([s |-> s, delivered |-> <<>>, dropped |-> <<>>], ev, in, dispatch_order, 1)

\* the for loop of run over the Option the completion handler returned
dispatch_responses(s, responses, in) ==
    IF is_some(responses) THEN dispatch_to_simulation_actors(s, unwrap(responses), in)
    ELSE [s |-> s, delivered |-> <<>>, dropped |-> <<>>]

\* the supplies a run is constructed with: the number of entries of each
\* VecDeque<Duration> and the values its entries are drawn from
Supply(n1, n2, n3, nw, dc1, dc2, dc3, dw) ==
    [c1 |-> n1, c2 |-> n2, c3 |-> n3, ws |-> nw,
     dur |-> [c1 |-> dc1, c2 |-> dc2, c3 |-> dc3, ws |-> dw]]

\* the state run_iteration constructs for the supplies sup
Constructed(sup) ==
    /\ supply = sup
    /\ ins1 = Inspector1_new(sup.c1)
    /\ ins2 = Inspector2_new(sup.c2, sup.c3)
    /\ ws = <<Workstation_new(W1, sup.ws), Workstation_new(W2, sup.ws),
              Workstation_new(W3, sup.ws)>>
    /\ clock = 0
    /\ pc = "start"
    /\ actor = 0
    /\ event = None
    /\ delivered = <<>>
    /\ dropped = <<>>
    /\ panic = "none"
    /\ result = None

\* a run in which the assembly supply of each workstation is one entry
\* shorter than the inspection supplies
InitShortAssembly ==
    \E n \in 1..MaxCount :
        Constructed(Supply(n, n, n, n - 1, DurSet, DurSet, DurSet,
                           <<DurSet, DurSet, DurSet>>))

\* run_iteration: six supplies of COMPONENT_COUNT entries each
Init ==
    \E n \in 0..MaxCount :
        Constructed(Supply(n, n, n, n, DurSet, DurSet, DurSet,
                           <<DurSet, DurSet, DurSet>>))

\* run_iteration with supplies in which C1 is inspected fast, C2 and C3
\* slowly, and WS1 assembles slowly
InitBacklog ==
    \E n \in BacklogCount..(BacklogCount + 1) :
        Constructed(Supply(n, n, n, n, FastInspection, SlowInspection, SlowInspection,
                           <<SlowAssembly, DurSet, DurSet>>))

\* the least value of a set of durations
Least(S) == CHOOSE x \in S : \A y \in S : x <= y

\* the inputs of a step: b, and a value for the front of each supply in used
\* (a supply no handler of the step pops keeps one fixed value)
Inputs(used, b) ==
    LET D(name, S) == IF name \in used THEN S ELSE {Least(S)} IN
    { [ws |-> <<w1, w2, w3>>, c1 |-> d1, c2 |-> d2, c3 |-> d3, b |-> b] :
        w1 \in D("ws1", supply.dur.ws[1]), w2 \in D("ws2", supply.dur.ws[2]),
        w3 \in D("ws3", supply.dur.ws[3]), d1 \in D("c1", supply.dur.c1),
        d2 \in D("c2", supply.dur.c2), d3 \in D("c3", supply.dur.c3) }

\* the number of entries left in a supply, in world s
Remaining(s, name) ==
    CASE name = "ws1" -> s.ws[1].assembly_durations
      [] name = "ws2" -> s.ws[2].assembly_durations
      [] name = "ws3" -> s.ws[3].assembly_durations
      [] name = "c1" -> s.ins1.durations_c1
      [] name = "c2" -> s.ins2.durations_c2
      [] name = "c3" -> s.ins2.durations_c3

\* the supplies the handlers that led from World to s popped
Popped(s) ==
    { name \in {"ws1", "ws2", "ws3", "c1", "c2", "c3"} :
        Remaining(s, name) < Remaining(World, name) }

\* the state after the handlers of one step returned r = [s, event, delivered,
\* dropped]; a panic aborts the run
Commit(r) ==
    /\ event' = r.event
    /\ delivered' = r.delivered
    /\ dropped' = r.dropped
    /\ IF r.s.panic = "none"
       THEN /\ ws' = r.s.ws /\ ins1' = r.s.ins1 /\ ins2' = r.s.ins2
            /\ panic' = "none" /\ pc' = "loop"
       ELSE /\ panic' = r.s.panic /\ pc' = "panic" /\ UNCHANGED <<ws, ins1, ins2>>
    /\ UNCHANGED <<supply, result>>

\* every outcome of a step Step(in): the random boolean is drawn, then the front
\* of each supply Step pops (which supplies it pops depends on the state and on
\* the boolean, not on the durations)
Outcomes(Step(_)) ==
    \E b \in BOOLEAN :
        \E in0 \in Inputs({}, b) : \E r0 \in {Step(in0)} :
            \E in \in Inputs(Popped(r0.s), b) :
                \E r \in {IF in = in0 THEN r0 ELSE Step(in)} : Commit(r)

\* run: self.dispatch_to_simulation_actors(SimulationStarted)
run_start(s, in) ==
    [event |-> Some(SimulationStarted)] @@ dispatch_to_simulation_actors(s, SimulationStarted, in)

\* the world after workstation a returned w = [ws, event, panic] from respond
responded(s, a, w) ==
    [s |-> IF w.panic # "none" THEN Abort(s, w.panic) ELSE [s EXCEPT !.ws[a] = w.ws],
     event |-> w.event]

\* Actor::respond of actor a: [s, event]
respond(s, a, now, in) ==
    IF a <= 3 THEN responded(s, a, Workstation_respond(s.ws[a], now, in.ws[a]))
    ELSE Inspector_respond(s, a - 3, now, in)

\* the for loop of run over the responses r = [s, event] of the handler
broadcast(r, in) == [event |-> r.event] @@ dispatch_responses(r.s, r.event, in)

\* the body of the while loop of run for actor a at time now: the completion
\* handler, then the broadcast of the event it returned
run_iteration_of(s, a, now, in) == broadcast(respond(s, a, now, in), in)

RunStart ==
    /\ pc = "start"
    /\ LET Step(in) == run_start(World, in) IN Outcomes(Step)
    /\ UNCHANGED <<clock, actor>>

\* one iteration of the while loop of run, a workstation selected
RespondWorkstation ==
    /\ pc = "loop"
    /\ \E next \in {time_until_next_actor_event(World, clock)} :
          /\ is_some(next) /\ unwrap(next)[1] <= 3
          /\ actor' = unwrap(next)[1]
          /\ clock' = clock + unwrap(next)[2]
          /\ LET Step(in) == run_iteration_of(World, unwrap(next)[1],
                                              clock + unwrap(next)[2], in)
             IN Outcomes(Step)

\* one iteration of the while loop of run, an inspector selected
RespondInspector ==
    /\ pc = "loop"
    /\ \E next \in {time_until_next_actor_event(World, clock)} :
          /\ is_some(next) /\ unwrap(next)[1] >= 4
          /\ actor' = unwrap(next)[1]
          /\ clock' = clock + unwrap(next)[2]
          /\ LET Step(in) == run_iteration_of(World, unwrap(next)[1],
                                              clock + unwrap(next)[2], in)
             IN Outcomes(Step)

\* the while loop ends: no actor has a next event
Terminate ==
    /\ pc = "loop"
    /\ is_none(time_until_next_actor_event(World, clock))
    /\ pc' = "done"
    /\ UNCHANGED <<clock, ws, ins1, ins2, actor, event, delivered, dropped, panic, supply, result>>

Next ==
    \/ RunStart
    \/ RespondWorkstation
    \/ RespondInspector
    \/ Terminate

Spec == Init /\ [][Next]_vars

SpecBacklog == InitBacklog /\ [][Next]_vars

\* ---- Inspector1::dispatch_component on every combination of C1 counts
\* a component inspected and enqueued before time 1
Inspected(kind) ==
    set_enqueued(finish_inspecting(start_inspecting(Component_new(1, kind), 0), 1), 1)

\* a buffer holding n components of a kind
Filled(n, kind) ==
    <<IF n >= 1 THEN Some(Inspected(kind)) ELSE None,
      IF n >= 2 THEN Some(Inspected(kind)) ELSE None>>

\* a workstation with the given buffers at time 1, running iff it can work
Loaded(t, bufs) ==
    LET w == [Workstation_new(t, MaxCount) EXCEPT !.ws_type.bufs = bufs] IN
    IF can_work(w.ws_type) THEN start(w, 1, 2).ws ELSE w

\* Inspector 2 at time 1 for the counts c2, c3 of its buffers: blocked by
\* rule 3 when both are full, inspecting a component it can place otherwise
Inspector2_at(c2, c3) ==
    LET kind == IF c2 = 2 THEN 3 ELSE 2
        c == start_inspecting(Component_new(2, kind), 1)
        i == Inspector2_new(1, 1)
    IN IF c2 = 2 /\ c3 = 2 THEN i
       ELSE [i EXCEPT !.is_blocked = FALSE,
                      !.next_finish_time = Some(3),
                      !.held_c2 = IF kind = 2 THEN Some(c) ELSE None,
                      !.held_c3 = IF kind = 3 THEN Some(c) ELSE None]

\* the loop of run at time 1: Inspector 1 is about to finish a C1 (at time 2,
\* before any other event) and the C1 buffers hold a[1], a[2], a[3] components
InitDispatch ==
    \E a \in [1..3 -> 0..2], c2 \in 0..2, c3 \in 0..2 :
        /\ supply = Supply(MaxCount, MaxCount, MaxCount, MaxCount, DurSet, DurSet, DurSet,
                           <<DurSet, DurSet, DurSet>>)
        /\ ws = <<Loaded(W1, <<Filled(a[1], 1)>>),
                  Loaded(W2, <<Filled(a[2], 1), Filled(c2, 2)>>),
                  Loaded(W3, <<Filled(a[3], 1), Filled(c3, 3)>>)>>
        /\ ins1 = [Inspector1_new(1) EXCEPT
                      !.is_blocked = FALSE,
                      !.next_finish_time = Some(2),
                      !.held_component = Some(start_inspecting(Component_new(1, 1), 1))]
        /\ ins2 = Inspector2_at(c2, c3)
        /\ clock = 1
        /\ pc = "loop"
        /\ actor = 4
        /\ event = None
        /\ delivered = <<>>
        /\ dropped = <<>>
        /\ panic = "none"
        /\ result = None

NextLoop ==
    \/ RespondWorkstation
    \/ RespondInspector
    \/ Terminate

SpecDispatch == InitDispatch /\ [][NextLoop]_vars

\* ---- properties of the run

\* a dispatch step (the start broadcast or one iteration of the loop) has
\* completed and the run has not been aborted
StepDone == pc \in {"loop", "done"}

\* the components inspector who holds
Held(who) ==
    IF is_1(who) THEN {unwrap(ins1.held_component) : x \in {1} \cap {Len(ins1.held_component)}}
    ELSE {unwrap(ins2.held_c2) : x \in {1} \cap {Len(ins2.held_c2)}}
         \cup {unwrap(ins2.held_c3) : x \in {1} \cap {Len(ins2.held_c3)}}

\* between steps a held component that is finished is one its inspector could
\* not place: the step that finished it tried every legal target
HoldsRejected(who) == \E c \in Held(who) : is_finished(c)

\* the count of the buffer of workstation k that takes components of kind
BufferCount(k, kind) == matching_count(ws[k].ws_type, kind)

\* the actor the next iteration selects (0: none)
Selected ==
    LET next == time_until_next_actor_event(World, clock) IN
    IF pc = "loop" /\ is_some(next) THEN unwrap(next)[1] ELSE 0

\* C1: between two dispatch steps, from the initial state onward, an
\* inspector (1 or 2) is blocked exactly when it holds a finished component
\* that its legal targets rejected and that is not placed yet.
C1_BlockedIffHoldsRejected ==
    pc \in {"start", "loop", "done"} =>
        \A who \in {1, 2} : is_blocked(World, who) <=> HoldsRejected(who)

\* Inspector 2 ended a step not blocked although the component it holds was
\* rejected, and no event of its own is left
C1_RejectedNotBlocked ==
    /\ pc = "done"
    /\ ~ins2.is_blocked
    /\ HoldsRejected(2)

\* the four assertions on the blocked flag of an inspector
FatalInspectorConditions ==
    {"set_blocked: assert!(!self.is_blocked)",
     "set_unblocked: assert!(self.is_blocked)",
     "respond: assert!(!self.is_blocked())",
     "inspect_next: assert!(!self.is_blocked())"}

\* C3: a run constructed with three non-empty inspection supplies never
\* fails an assertion on the blocked flag of an inspector: set_blocked on a
\* blocked inspector, set_unblocked on an unblocked one, the completion
\* handler of a blocked inspector, Inspector 1 beginning an inspection
\* while blocked; the supplies running out changes nothing.
C3_NoFatalInspectorCondition ==
    (supply.c1 > 0 /\ supply.c2 > 0 /\ supply.c3 > 0) =>
        panic \notin FatalInspectorConditions

\* Inspector 2 was blocked with both supplies used up when a P2 or P3 was
\* assembled: its retry called set_blocked on a blocked inspector
C3_SetBlockedTwice ==
    /\ supply.c1 > 0 /\ supply.c2 > 0 /\ supply.c3 > 0
    /\ panic = "set_blocked: assert!(!self.is_blocked)"
    /\ ins2.is_blocked /\ ins2.durations_c2 = 0 /\ ins2.durations_c3 = 0
    /\ is_some(event) /\ unwrap(event).type = "Assembled"

\* C2: after every completed dispatch step every workstation whose buffers
\* allow an assembly (can_work) is running, whether the placement that
\* completed its inputs happened in a completion handler or in the retry an
\* Assembled event triggers.
C2_ReadyWorkstationRuns ==
    StepDone => \A k \in 1..3 : can_work(ws[k].ws_type) => is_working(ws[k])

\* the retry of blocked Inspector 1 placed its C1 in a workstation that was
\* idle; the WorkstationStarted event it returned to the broadcast was not
\* dispatched, and the workstation is left idle with every input present
C2_StartEventLost ==
    /\ pc = "loop"
    /\ is_some(event) /\ unwrap(event).type = "Assembled"
    /\ \E k \in 1..3 :
          /\ dropped = <<WorkstationStarted(k, clock)>>
          /\ can_work(ws[k].ws_type)
          /\ ~is_working(ws[k])

\* the kinds of component a product of kind p is assembled from
Consumes(p) == IF p = 1 THEN {1} ELSE {1, p}

\* C4: when a workstation completes an assembly, every blocked inspector
\* that holds a finished component of a kind the assembly consumed retries
\* within the step; the retry finds the slot the assembly freed, so no such
\* inspector is still blocked when the step has completed (Inspector 1 after
\* a P2 or P3 as well as after a P1).
C4_RetryOnEveryAssembly ==
    (pc = "loop" /\ is_some(event) /\ unwrap(event).type = "Assembled") =>
        \A who \in {1, 2} :
            ~(/\ is_blocked(World, who)
              /\ \E c \in Held(who) :
                    is_finished(c) /\ c.kind \in Consumes(unwrap(event).product.kind))

\* a P2 or P3 was assembled, its workstation has a free C1 slot, and
\* Inspector 1 is still blocked on a finished C1
C4_StillBlockedAfterP2P3 ==
    /\ pc = "loop"
    /\ is_some(event) /\ unwrap(event).type = "Assembled"
    /\ unwrap(event).product.kind \in {2, 3}
    /\ BufferCount(unwrap(event).ws, 1) < 2
    /\ ins1.is_blocked /\ HoldsRejected(1)

\* both buffers Inspector 2 places into (C2 of WS2, C3 of WS3) hold 2
BothTargetsFull == BufferCount(2, 2) = 2 /\ BufferCount(3, 3) = 2

\* C5: when Inspector 2 finishes a component while both of its target
\* buffers hold 2, the step completes with Inspector 2 blocked, no duration
\* popped, and the finished component still held; and a blocked Inspector 2
\* is only unblocked by a step that broadcasts an Assembled event for P2 or P3.
C5_RejectedInspector2Blocks ==
    [][ /\ (Selected = 5 /\ BothTargetsFull) =>
              /\ pc' = "loop"
              /\ ins2'.is_blocked
              /\ ins2'.durations_c2 = ins2.durations_c2
              /\ ins2'.durations_c3 = ins2.durations_c3
              /\ is_some(ins2'.held_c2) = is_some(ins2.held_c2)
              /\ is_some(ins2'.held_c3) = is_some(ins2.held_c3)
              /\ HoldsRejected(2)'
        /\ (pc = "loop" /\ ins2.is_blocked /\ ~ins2'.is_blocked) =>
              /\ is_some(event')
              /\ unwrap(event').type = "Assembled"
              /\ unwrap(event').product.kind \in {2, 3}
      ]_vars

\* Inspector 2 finished a component with both target buffers full and the
\* step left it holding the component, not blocked
C5_BothFullNotBlocked ==
    /\ pc = "loop" /\ actor = 5
    /\ BothTargetsFull
    /\ HoldsRejected(2)
    /\ ~ins2.is_blocked

\* the kind of component buffer b of workstation k takes
BufferKind(k, b) == IF b = 1 THEN 1 ELSE k

\* C6: every buffer of every workstation has two slots, so holds at most 2
\* components, and every component in it is of the kind the buffer takes.
C6_BuffersBoundedAndTyped ==
    \A k \in 1..3 : \A b \in DOMAIN ws[k].ws_type.bufs :
        LET buf == ws[k].ws_type.bufs[b] IN
        /\ DOMAIN buf = 1..2
        /\ present_count(buf) <= 2
        /\ \A i \in 1..2 : is_some(buf[i]) => unwrap(buf[i]).kind = BufferKind(k, b)

\* a buffer is full, holds two components of its kind, and a further
\* component of that kind was turned away
C6_FullBufferRejected ==
    /\ pc = "loop"
    /\ \E c \in Held(2) :
          /\ is_finished(c)
          /\ BufferCount(c.kind, c.kind) = 2
          /\ \A i \in 1..2 : unwrap(ws[c.kind].ws_type.bufs[2][i]).kind = c.kind

\* the time of the event actor a waits for
EventTime(a) ==
    IF a <= 3 THEN unwrap(ws[a].current_duration)[1] + unwrap(ws[a].current_duration)[2]
    ELSE unwrap(next_end_time(World, a - 3))

\* C9: every iteration invokes the actor with the least time to its next
\* event, the first registered one among equals, and the clock is set to
\* that actor's event time before its handler runs (the event the handler
\* returns carries that time).
C9_EarliestFirstRegistered ==
    [][ (pc = "loop" /\ pc' # "done") =>
          LET D(a) == duration_until_next_event(World, a, clock) IN
          /\ actor' \in 1..NActors
          /\ is_some(D(actor'))
          /\ \A a \in 1..NActors :
                is_some(D(a)) =>
                    /\ unwrap(D(actor')) <= unwrap(D(a))
                    /\ a < actor' => unwrap(D(actor')) < unwrap(D(a))
          /\ clock' = clock + unwrap(D(actor'))
          /\ clock' = EventTime(actor')
          /\ is_some(event') => unwrap(event').ts = clock'
      ]_vars

\* iterations have run, and the next one chooses among two actors whose
\* events are due at the same time
C9_TieAtSelection ==
    /\ pc = "loop" /\ actor # 0 /\ clock > 0
    /\ \E a, b \in 1..NActors :
          /\ a < b
          /\ Selected = a
          /\ duration_until_next_event(World, a, clock)
                = duration_until_next_event(World, b, clock)

\* C10: an iteration runs one completion handler, which returns no event or
\* one; the event is delivered once to each of the five actors, in
\* registration order, within the iteration; nothing else is broadcast
\* (whatever respond_to returns is not dispatched).
C10_OneBroadcastPerIteration ==
    StepDone =>
        /\ Len(event) <= 1
        /\ IF is_some(event) THEN delivered = <<1, 2, 3, 4, 5>> ELSE delivered = <<>>

\* an iteration whose handler returned an Assembled event has completed:
\* the five actors received it, and the event an inspector returned from
\* respond_to was not broadcast
C10_AssembledBroadcast ==
    /\ pc = "loop" /\ actor \in 1..3
    /\ is_some(event) /\ unwrap(event).type = "Assembled"
    /\ Len(delivered) = NActors
    /\ dropped # <<>>

\* the C1 count of workstation k, and the least of the three
C1Count(k) == BufferCount(k, 1)
LeastC1 == Least({C1Count(k) : k \in 1..3})

\* the first workstation, in the given order, whose C1 count is the least
FirstLeast(order) ==
    order[Least({i \in 1..3 : C1Count(order[i]) = LeastC1})]

\* the step added one C1 to workstation k and none to the others
PlacedAt(k) ==
    /\ C1Count(k)' = C1Count(k) + 1
    /\ \A j \in (1..3) \ {k} : C1Count(j)' = C1Count(j)

\* C7 as stated: Inspector 1 sends a finished C1 to a workstation with the
\* least C1 count, ties going to WS1 before WS2 before WS3, so (0,0,0) and
\* (0,0,1) go to WS1 and (1,0,0) goes to WS2.
C7_TiesWS1WS2WS3 ==
    [][ (Selected = 4 /\ LeastC1 < 2 /\ pc' = "loop") =>
            \E k \in {FirstLeast(<<1, 2, 3>>)} : PlacedAt(k) ]_vars

\* C7 amended: Inspector 1 sends a finished C1 to a workstation with the
\* least C1 count, ties going to WS2 before WS3 before WS1: WS1 is chosen only
\* when its count is strictly below both others, so (0,0,0), (0,0,1) and
\* (1,0,0) all go to WS2.
C7_TiesWS2WS3WS1 ==
    [][ (Selected = 4 /\ LeastC1 < 2 /\ pc' = "loop") =>
            \E k \in {FirstLeast(<<2, 3, 1>>)} : PlacedAt(k) ]_vars

\* Inspector 1 finished a C1 at time 2 with the three C1 buffers empty, and
\* the C1 is in WS2
C7_AllEmptyGoesToWS2 ==
    /\ pc = "loop" /\ actor = 4 /\ clock = 2
    /\ C1Count(1) = 0 /\ C1Count(2) = 1 /\ C1Count(3) = 0
    /\ unwrap(ws[2].ws_type.bufs[1][1]).queue_time = Some(2)

\* C8: for every combination of C1 counts (0..2 each) the dispatch of
\* Inspector 1 reaches no "Bad branch": it offers the C1 to exactly one
\* workstation, whose count is the least; the offer is accepted unless all
\* three buffers hold 2, and then Inspector 1 is blocked.
C8_OneLeastTarget ==
    [][ Selected = 4 =>
          /\ panic' # "Bad branch"
          /\ pc' = "loop"
          /\ IF LeastC1 < 2
             THEN /\ \E k \in 1..3 : C1Count(k) = LeastC1 /\ PlacedAt(k)
                  /\ ~ins1'.is_blocked
             ELSE /\ \A k \in 1..3 : C1Count(k)' = C1Count(k)
                  /\ ins1'.is_blocked
      ]_vars

\* Inspector 1 finished a C1 at time 2 with the three C1 buffers full: the
\* C1 was rejected and Inspector 1 is blocked holding it
C8_RejectedWhenAllFull ==
    /\ pc = "loop" /\ actor = 4 /\ clock = 2
    /\ \A k \in 1..3 : C1Count(k) = 2
    /\ ins1.is_blocked /\ HoldsRejected(1)

\* ---- conservation of components
\* the inspections inspector who has begun: the durations popped from its supplies
Begun(who) ==
    IF is_1(who) THEN supply.c1 - ins1.durations_c1
    ELSE (supply.c2 - ins2.durations_c2) + (supply.c3 - ins2.durations_c3)

\* the components of a kind waiting in the buffers of the workstations
InBuffers(kind) ==
    Cardinality({ x \in (1..3) \X (1..2) \X (1..2) :
        /\ x[2] \in DOMAIN ws[x[1]].ws_type.bufs
        /\ is_some(ws[x[1]].ws_type.bufs[x[2]][x[3]])
        /\ unwrap(ws[x[1]].ws_type.bufs[x[2]][x[3]]).kind = kind })

\* the components of a kind the products assembled so far were made from
\* (one C1 in every product, one C2 in every P2, one C3 in every P3)
InProducts(kind) ==
    IF kind = 1 THEN ws[1].products + ws[2].products + ws[3].products
    ELSE ws[kind].products

\* the components inspector who has placed into workstation buffers
Placed(who) ==
    IF is_1(who) THEN InBuffers(1) + InProducts(1)
    ELSE InBuffers(2) + InProducts(2) + InBuffers(3) + InProducts(3)

\* C11: for each inspector, in every reachable state, the inspections it has
\* begun (durations popped from its supplies) are as many as the components it
\* has placed into buffers plus the components it holds: none is dropped or
\* overwritten.
C11_BegunIsPlacedPlusHeld ==
    \A who \in {1, 2} :
        Begun(who) = Placed(who) + Len(held_components(World, who, FALSE))

\* both inspectors have begun three inspections, hold one component each, and
\* products were assembled from components they placed
C11_BothRolesPlacedAndHold ==
    /\ pc = "loop"
    /\ \A who \in {1, 2} : Begun(who) >= 3 /\ Len(held_components(World, who, FALSE)) = 1
    /\ InProducts(1) >= 1 /\ InProducts(2) + InProducts(3) >= 1

\* ---- assembly
\* the components in a buffer
Contents(buf) == {unwrap(buf[i]) : i \in {j \in 1..2 : is_some(buf[j])}}

\* buffer nb holds one component less than buffer ob, the component c, and the
\* other component of ob stays in its slot
TookOne(ob, nb, c) ==
    /\ present_count(nb) = present_count(ob) - 1
    /\ c \in Contents(ob)
    /\ \A i \in 1..2 : is_some(nb[i]) => nb[i] = ob[i]

\* the completion handler of workstation a at time now returned r = [ws, event,
\* panic]: one product of kind a, made from one finished component of each
\* buffer, each taken out of its buffer
AssembledOne(a, now, r) ==
    /\ r.panic = "none"
    /\ is_some(r.event)
    /\ \E e \in {unwrap(r.event)} : \E prod \in {e.product} :
          /\ e.type = "Assembled" /\ e.ws = a
          /\ prod.kind = a /\ prod.timestamp = now
          /\ prod.first.kind = 1 /\ is_finished(prod.first)
          /\ TookOne(ws[a].ws_type.bufs[1], r.ws.ws_type.bufs[1], prod.first)
          /\ IF a = 1
             THEN is_none(prod.second) /\ Len(r.ws.ws_type.bufs) = 1
             ELSE /\ is_some(prod.second)
                  /\ unwrap(prod.second).kind = a /\ is_finished(unwrap(prod.second))
                  /\ TookOne(ws[a].ws_type.bufs[2], r.ws.ws_type.bufs[2],
                             unwrap(prod.second))
    /\ r.ws.products = ws[a].products + 1

\* the step of workstation a whose handler returned r left in the buffers every
\* component that was there, the ones the handler took excepted, pushed one
\* product, and emitted the event of the handler
NothingElseTaken(a, r) ==
    /\ event' = r.event
    /\ \A k \in 1..3 :
          /\ ws'[k].products = ws[k].products + (IF k = a THEN 1 ELSE 0)
          /\ \A b \in DOMAIN ws[k].ws_type.bufs : \A i \in 1..2 :
                \E old \in {IF k = a THEN r.ws.ws_type.bufs[b][i]
                            ELSE ws[k].ws_type.bufs[b][i]} :
                    is_some(old) => ws'[k].ws_type.bufs[b][i] = old

\* C12: every timer firing of a workstation completes one assembly, which
\* takes exactly one component out of each buffer of the workstation (a
\* finished C1 for a P1; a finished C1 and a finished C2 for a P2; a finished C1
\* and a finished C3 for a P3) and nothing else, pushes exactly one product and
\* emits exactly one Assembled event.
C12_AssemblyConsumesOneOfEach ==
    [][ (Selected \in 1..3) =>
          (\E a \in {Selected} : \E now \in {clock'} :
           \E r \in {Workstation_respond(ws[a], now, Least(supply.dur.ws[a]))} :
              /\ actor' = a
              /\ AssembledOne(a, now, r)
              /\ (pc' = "loop" => NothingElseTaken(a, r)))
      ]_vars

\* WS2 assembled a P2 while its C2 buffer held two components: the one
\* enqueued last went into the product with a finished C1, the other one is
\* still in the first slot
C12_AssembledP2FromFullBuffer ==
    /\ pc = "loop" /\ actor = 2
    /\ is_some(event) /\ unwrap(event).type = "Assembled"
    /\ unwrap(event).product.kind = 2
    /\ unwrap(event).product.first.kind = 1
    /\ is_some(ws[2].ws_type.bufs[2][1]) /\ is_none(ws[2].ws_type.bufs[2][2])
    /\ unwrap(unwrap(ws[2].ws_type.bufs[2][1]).queue_time)
          < unwrap(unwrap(unwrap(event).product.second).queue_time)

\* ---- inspection
\* the components of the world s that inspector who holds
HeldIn(s, who) ==
    IF is_1(who) THEN Contents(<<s.ins1.held_component, None>>)
    ELSE Contents(<<s.ins2.held_c2, s.ins2.held_c3>>)

\* every component the state knows: held, waiting in a buffer, or in the
\* product of the last event
Components ==
    Held(1) \cup Held(2)
    \cup UNION { UNION { Contents(ws[k].ws_type.bufs[b]) : b \in DOMAIN ws[k].ws_type.bufs } :
                    k \in 1..3 }
    \cup (IF is_some(event) /\ unwrap(event).type = "Assembled"
          THEN {unwrap(event).product.first} \cup Contents(<<unwrap(event).product.second, None>>)
          ELSE {})

\* the inspection of a finished component took the duration assigned to it
TookItsDuration(c) ==
    is_finished(c) => unwrap(c.end) - unwrap(c.start) = c.duration

\* C13: whenever the completion handler of an inspector runs at time now, the
\* inspector holds exactly one unfinished component, whose inspection_start +
\* duration is now, and finish_inspection stamps that component finished with
\* inspection_end = now (no assertion of finish_inspecting fails and the due
\* component is not left unfinished); so for every finished component
\* inspection_end - inspection_start is its duration.
C13_FinishesTheDueComponent ==
    [][ /\ (Selected \in 4..5) =>
              (\E who \in {Selected - 3} : \E now \in {clock'} :
               \E due \in {{c \in Held(who) : ~is_finished(c)}} :
               \E s1 \in {finish_inspection(World, who, now)} :
                  /\ actor' = Selected
                  /\ Cardinality(due) = 1
                  /\ \A c \in due :
                        /\ unwrap(c.start) + c.duration = now
                        /\ [c EXCEPT !.end = Some(now)] \in HeldIn(s1, who)
                  /\ s1.panic = "none"
                  /\ \A c \in HeldIn(s1, who) : is_finished(c))
        /\ \A c \in Components' : TookItsDuration(c)
      ]_vars

\* Inspector 2 finished a component of duration 2 two minutes after it
\* began it, and the component is in its buffer
C13_FinishedAfterDuration ==
    /\ pc = "loop" /\ actor = 5
    /\ \E c \in Contents(ws[2].ws_type.bufs[2]) \cup Contents(ws[3].ws_type.bufs[2]) :
          /\ c.duration = 2
          /\ c.end = Some(clock)
          /\ c.start = Some(clock - 2)

\* ---- Workstation::enqueue on every state of the buffers
\* a component of a kind whose inspection finished at time now
Finished(kind, now) ==
    finish_inspecting(start_inspecting(Component_new(1, kind), now - 1), now)

\* workstation k holds n1 C1 and n2 components of its other kind, runs an
\* assembly or not (it runs only if it can work), and an inspector holds a
\* finished component of a kind workstation k takes, at time now
InitEnqueue ==
    \E k \in 1..3, n1 \in 0..2, n2 \in 0..2, running \in BOOLEAN,
       kind \in 1..3, now \in 2..3 :
        /\ kind \in {1, k}
        /\ k = 1 => n2 = 0
        /\ \E w \in {[Workstation_new(<<W1, W2, W3>>[k], MaxCount) EXCEPT
                         !.ws_type.bufs = IF k = 1 THEN <<Filled(n1, 1)>>
                                          ELSE <<Filled(n1, 1), Filled(n2, k)>>]} :
              /\ running => can_work(w.ws_type)
              /\ ws = [j \in 1..3 |->
                          IF j # k THEN Workstation_new(<<W1, W2, W3>>[j], MaxCount)
                          ELSE IF running THEN start(w, 1, 3).ws ELSE w]
        /\ ins1 = IF kind # 1 THEN Inspector1_new(MaxCount)
                  ELSE [Inspector1_new(MaxCount) EXCEPT
                           !.is_blocked = FALSE,
                           !.held_component = Some(Finished(1, now))]
        /\ ins2 = IF kind = 1 THEN Inspector2_new(MaxCount, MaxCount)
                  ELSE [Inspector2_new(MaxCount, MaxCount) EXCEPT
                           !.is_blocked = FALSE,
                           !.held_c2 = IF kind = 2 THEN Some(Finished(2, now)) ELSE None,
                           !.held_c3 = IF kind = 3 THEN Some(Finished(3, now)) ELSE None]
        /\ supply = Supply(MaxCount, MaxCount, MaxCount, MaxCount, DurSet, DurSet, DurSet,
                           <<DurSet, DurSet, DurSet>>)
        /\ clock = now
        /\ pc = "enqueue"
        /\ actor = k
        /\ event = None
        /\ delivered = <<>>
        /\ dropped = <<>>
        /\ panic = "none"
        /\ result = None

\* self.ws[..].borrow_mut().enqueue(.., c, now) on workstation actor, c the
\* component an inspector holds
Enqueue ==
    /\ pc = "enqueue"
    /\ \E c \in Held(1) \cup Held(2) : \E e \in {enqueue(ws[actor], c, clock)} :
          /\ result' = Some(e)
          /\ IF e.panic = "none"
             THEN /\ ws' = [ws EXCEPT ![actor] = e.ws]
                  /\ panic' = "none" /\ pc' = "enqueued"
             ELSE /\ panic' = e.panic /\ pc' = "panic" /\ UNCHANGED ws
    /\ UNCHANGED <<clock, ins1, ins2, actor, event, delivered, dropped, supply>>

SpecEnqueue == InitEnqueue /\ [][Enqueue]_vars

\* the buffer of workstation k for components of a kind
BufferFor(k, kind) == CHOOSE b \in DOMAIN ws[k].ws_type.bufs : BufferKind(k, b) = kind

\* C14: enqueue of a finished component is rejected (Fail) exactly when the
\* second slot of the buffer for the component's kind is occupied, that is,
\* when that buffer holds 2 components; this is so for every state of the
\* other buffer, whether or not the workstation is running.
C14_RejectedIffSecondSlotOccupied ==
    [][ pc = "enqueue" =>
          \A c \in Held(1) \cup Held(2) :
              \E buf \in {ws[actor].ws_type.bufs[BufferFor(actor, c.kind)]} :
                  /\ pc' = "enqueued"
                  /\ ~unwrap(result').ok <=> is_some(buf[2])
                  /\ ~unwrap(result').ok <=> present_count(buf) = 2
      ]_vars

\* a C2 was rejected by WS2, whose C2 buffer holds 2, while its C1 buffer
\* holds one component and an assembly is running
C14_RejectedWhileRunning ==
    /\ pc = "enqueued" /\ actor = 2
    /\ is_some(ins2.held_c2)
    /\ ~unwrap(result).ok
    /\ BufferCount(2, 2) = 2 /\ BufferCount(2, 1) = 1
    /\ is_working(ws[2])

\* C15: an accepted enqueue at time now stores the component in the first
\* slot of its buffer if that slot is empty and in the second otherwise, with
\* enqueue time now; the buffer holds one component more, the other buffer and
\* the running assembly are as before, and the result tells whether the
\* workstation was running when enqueue was called.
C15_AcceptedIntoFirstFreeSlot ==
    [][ (pc = "enqueue" /\ unwrap(result').ok) =>
          \A c \in Held(1) \cup Held(2) :
              \E b \in {BufferFor(actor, c.kind)} :
              \E ob \in {ws[actor].ws_type.bufs[b]} :
              \E nb \in {ws'[actor].ws_type.bufs[b]} :
              \E stored \in {Some([c EXCEPT !.queue_time = Some(clock)])} :
                  /\ IF is_none(ob[1]) THEN nb = <<stored, ob[2]>>
                     ELSE nb = <<ob[1], stored>>
                  /\ present_count(nb) = present_count(ob) + 1
                  /\ \A j \in DOMAIN ws[actor].ws_type.bufs :
                        j # b => ws'[actor].ws_type.bufs[j] = ws[actor].ws_type.bufs[j]
                  /\ \A j \in 1..3 : j # actor => ws'[j] = ws[j]
                  /\ ws'[actor].current_duration = ws[actor].current_duration
                  /\ unwrap(result').ws_is_working = is_working(ws[actor])
                  /\ unwrap(result').ts = clock
      ]_vars

\* a C1 was accepted by WS3 while it was running: it is in the second slot of
\* the C1 buffer, enqueued at the current time, and the result says running
C15_AcceptedIntoSecondSlot ==
    /\ pc = "enqueued" /\ actor = 3
    /\ is_some(ins1.held_component)
    /\ unwrap(result).ok /\ unwrap(result).ws_is_working
    /\ is_some(ws[3].ws_type.bufs[1][2])
    /\ unwrap(ws[3].ws_type.bufs[1][2]).queue_time = Some(clock)
    /\ unwrap(ws[3].ws_type.bufs[1][1]).queue_time # Some(clock)

\* ---- slots of a buffer
\* C16: in every reachable state the second slot of a buffer is occupied
\* only if the first is, so can_work, which looks at the first slot of each
\* buffer of the workstation, is true exactly when every buffer of the
\* workstation holds at least one component.
C16_SlotsFilledInOrder ==
    \A k \in 1..3 :
        /\ \A b \in DOMAIN ws[k].ws_type.bufs :
              is_some(ws[k].ws_type.bufs[b][2]) => is_some(ws[k].ws_type.bufs[b][1])
        /\ can_work(ws[k].ws_type)
              <=> \A b \in DOMAIN ws[k].ws_type.bufs :
                      present_count(ws[k].ws_type.bufs[b]) >= 1

\* WS2 assembled a P2 from a full C2 buffer: the component left is in the
\* first slot, and WS2 cannot work because its C1 buffer is empty
C16_OneLeftInFirstSlot ==
    /\ pc = "loop" /\ actor = 2
    /\ is_some(event) /\ unwrap(event).type = "Assembled"
    /\ is_some(ws[2].ws_type.bufs[2][1]) /\ is_none(ws[2].ws_type.bufs[2][2])
    /\ unwrap(unwrap(ws[2].ws_type.bufs[2][1]).queue_time)
          < unwrap(unwrap(unwrap(event).product.second).queue_time)
    /\ C1Count(2) = 0
    /\ ~can_work(ws[2].ws_type)

\* ---- restart of a workstation
\* C17: in the step in which the timer of a workstation fires at time now,
\* the workstation starts its next assembly at time now, popping one assembly
\* duration, if each of its buffers still holds a component once the assembly
\* has taken its inputs (each buffer held 2), and is idle otherwise; nothing
\* but the step itself is needed.
C17_SelfRestart ==
    [][ (Selected \in 1..3 /\ pc' = "loop") =>
          (\E a \in {Selected} : \E w \in {ws'[a]} :
              IF \A b \in DOMAIN ws[a].ws_type.bufs :
                     present_count(ws[a].ws_type.bufs[b]) = 2
              THEN /\ is_working(w)
                   /\ unwrap(w.current_duration)[1] = clock'
                   /\ unwrap(w.current_duration)[2] \in supply.dur.ws[a]
                   /\ w.assembly_durations = ws[a].assembly_durations - 1
              ELSE /\ ~is_working(w)
                   /\ w.assembly_durations = ws[a].assembly_durations)
      ]_vars

\* WS1 assembled a P1 and started its next assembly at the same time
C17_RestartedAtOnce ==
    /\ pc = "loop" /\ actor = 1
    /\ is_some(event) /\ unwrap(event).type = "Assembled"
    /\ is_working(ws[1])
    /\ unwrap(ws[1].current_duration)[1] = clock
    /\ ws[1].products >= 1

\* ---- placement followed by the next inspection
\* the step put a component of inspector who into a buffer: a slot holds a
\* component of one of its kinds, enqueued at the time of the step, that was
\* not there before
Accepted(who) ==
    \E k \in 1..3 : \E b \in DOMAIN ws[k].ws_type.bufs : \E i \in 1..2 :
        /\ is_some(ws'[k].ws_type.bufs[b][i])
        /\ ws'[k].ws_type.bufs[b][i] # ws[k].ws_type.bufs[b][i]
        /\ unwrap(ws'[k].ws_type.bufs[b][i]).queue_time = Some(clock')
        /\ is_1(who) <=> unwrap(ws'[k].ws_type.bufs[b][i]).kind = 1

\* inspector who has a component to inspect once the step has placed one:
\* its supply is not empty (Inspector 1); a supply is not empty, and if both
\* are not, the two buffers it places into are not both full (Inspector 2)
HasNext(who) ==
    IF is_1(who) THEN ins1.durations_c1 > 0
    ELSE /\ ins2.durations_c2 > 0 \/ ins2.durations_c3 > 0
         /\ ~(/\ ins2.durations_c2 > 0 /\ ins2.durations_c3 > 0
              /\ BothTargetsFull')

\* C18: whenever a workstation accepts the finished component of an
\* inspector at time t (after the inspection finished, or in the retry an
\* Assembled event triggers), the step leaves no finished component in the
\* inspector's hands and, if the inspector has something to inspect next,
\* it holds one component whose inspection began at t and is due at t + its
\* duration, one duration having been popped.
C18_PlacementBeginsNextInspection ==
    [][ \A who \in {1, 2} :
          Accepted(who) =>
              /\ \A c \in Held(who)' : ~is_finished(c)
              /\ IF HasNext(who)
                 THEN /\ Cardinality(Held(who)') = 1
                      /\ \A c \in Held(who)' :
                            /\ c.start = Some(clock')
                            /\ next_end_time(World, who)' = Some(clock' + c.duration)
                      /\ Begun(who)' = Begun(who) + 1
                      /\ ~is_blocked(World, who)'
                 ELSE /\ Held(who)' = {}
                      /\ Begun(who)' = Begun(who)
                      /\ next_end_time(World, who)' = None
      ]_vars

\* WS1 assembled a P1 at time t, blocked Inspector 1 placed its C1 in the
\* retry and began its next inspection at t
C18_RetryBeganNextInspection ==
    /\ pc = "loop" /\ actor = 1
    /\ is_some(event) /\ unwrap(event).type = "Assembled"
    /\ ~ins1.is_blocked
    /\ \E c \in Held(1) :
          /\ c.start = Some(clock)
          /\ ins1.next_finish_time = Some(clock + c.duration)
    /\ \E k \in 1..3 : \E i \in 1..2 :
          /\ is_some(ws[k].ws_type.bufs[1][i])
          /\ unwrap(ws[k].ws_type.bufs[1][i]).queue_time = Some(clock)
          /\ unwrap(unwrap(ws[k].ws_type.bufs[1][i]).end) < clock

\* ---- rejection of Inspector 1
\* C19: when Inspector 1 finishes a C1 while the three C1 buffers hold 2
\* each, the C1 is rejected without any panic: Inspector 1 is blocked, holds
\* exactly that finished component, has popped no further duration and has no
\* pending event; and as long as it stays blocked it keeps the component and
\* its supply, and is never selected.
C19_RejectedInspector1Blocks ==
    [][ /\ (Selected = 4 /\ \A k \in 1..3 : C1Count(k) = 2) =>
              /\ pc' = "loop" /\ panic' = "none"
              /\ ins1'.is_blocked
              /\ Held(1)' = {[c EXCEPT !.end = Some(clock')] : c \in Held(1)}
              /\ Cardinality(Held(1)') = 1
              /\ ins1'.durations_c1 = ins1.durations_c1
              /\ Inspector_duration_until_next_event(World, 1, clock)' = None
              /\ event' = None
        /\ (pc = "loop" /\ ins1.is_blocked) =>
              /\ Selected # 4
              /\ ins1'.is_blocked =>
                    /\ ins1'.held_component = ins1.held_component
                    /\ ins1'.durations_c1 = ins1.durations_c1
      ]_vars

\* Inspector 1 has just finished a C1 that no workstation took: it is
\* blocked with durations left in its supply, and the step produced no event
C19_BlockedWithSupplyLeft ==
    /\ pc = "loop" /\ actor = 4
    /\ ins1.is_blocked
    /\ ins1.durations_c1 > 0
    /\ event = None
    /\ \E c \in Held(1) : c.end = Some(clock)
    /\ \A k \in 1..3 : C1Count(k) = 2

\* ---- the decision of Inspector 2
\* the step calls inspect_next of Inspector 2: its inspection finishes, or it
\* is blocked and the workstation selected assembles a P2 or a P3
Inspector2Decides ==
    \/ Selected = 5
    \/ Selected \in 2..3 /\ ins2.is_blocked

\* C20: when Inspector 2 decides what to inspect next while both of its
\* supplies are non-empty, exactly one of its two target buffers (C2 of WS2,
\* C3 of WS3) is full and it holds no finished component of the other kind, it
\* begins a component of the kind whose buffer is not full, popping exactly
\* one duration, from that kind's supply, whatever Random::boolean returns.
C20_Rule2PicksNonFullKind ==
    [][ (/\ Inspector2Decides
         /\ ins2.durations_c2 > 0 /\ ins2.durations_c3 > 0) =>
          /\ pc' = "loop"
          /\ \A full \in 2..3 : \E other \in {5 - full} :
              (/\ BufferCount(full, full)' = 2
               /\ BufferCount(other, other)' # 2
               /\ ~\E c \in Held(2) : c.kind = other /\ c.end # None) =>
                  /\ \E c \in Held(2)' :
                        c.kind = other /\ ~is_finished(c) /\ c.start = Some(clock')
                  /\ \E d \in {[k \in 2..3 |-> IF k = full THEN 0 ELSE 1]} :
                        /\ ins2'.durations_c2 = ins2.durations_c2 - d[2]
                        /\ ins2'.durations_c3 = ins2.durations_c3 - d[3]
      ]_vars

\* Inspector 2 placed a C2 that filled the C2 buffer of WS2, with durations
\* left in both supplies, and began a C3
C20_BeganC3WhenC2Full ==
    /\ pc = "loop" /\ actor = 5
    /\ BufferCount(2, 2) = 2 /\ BufferCount(3, 3) < 2
    /\ unwrap(ws[2].ws_type.bufs[2][2]).queue_time = Some(clock)
    /\ ins2.durations_c2 > 0 /\ ins2.durations_c3 > 0
    /\ \E c \in Held(2) : c.kind = 3 /\ c.start = Some(clock)

\* C21: when Inspector 2 decides what to inspect next while both of its
\* supplies are non-empty and both of its target buffers (C2 of WS2, C3 of
\* WS3) are full, it begins nothing: no duration is popped from either supply,
\* and the step ends without a panic with Inspector 2 blocked, holding no
\* component under inspection, with no finish time and no next event.
C21_Rule3BlocksWithoutPopping ==
    [][ (/\ Inspector2Decides
         /\ ins2.durations_c2 > 0 /\ ins2.durations_c3 > 0
         /\ BothTargetsFull') =>
          /\ pc' = "loop" /\ panic' = "none"
          /\ ins2'.durations_c2 = ins2.durations_c2
          /\ ins2'.durations_c3 = ins2.durations_c3
          /\ ins2'.is_blocked
          /\ \A c \in Held(2)' : is_finished(c)
          /\ ins2'.next_finish_time = None
          /\ Inspector_duration_until_next_event(World, 2, clock)' = None
      ]_vars

\* Inspector 2 placed a component that filled the second of its two target
\* buffers, with durations left in both supplies, and is blocked
C21_BlockedByRule3 ==
    /\ pc = "loop" /\ actor = 5
    /\ BothTargetsFull
    /\ ins2.durations_c2 > 0 /\ ins2.durations_c3 > 0
    /\ ins2.is_blocked /\ Held(2) = {}
    /\ \E k \in 2..3 : unwrap(ws[k].ws_type.bufs[2][2]).queue_time = Some(clock)

\* ---- Inspector2::decide_next_component on every state of supplies and buffers
\* Inspector 2 with n2 and n3 durations left, holding nothing (held = 0) or a
\* finished component of kind held, while the C2 buffer of WS2 holds c2 and
\* the C3 buffer of WS3 holds c3 components
InitDecide ==
    \E n2 \in 0..2, n3 \in 0..2, c2 \in 0..2, c3 \in 0..2, held \in {0, 2, 3} :
        /\ supply = Supply(2, 2, 2, 2, DurSet, DurSet, DurSet, <<DurSet, DurSet, DurSet>>)
        /\ ws = <<Workstation_new(W1, 2),
                  [Workstation_new(W2, 2) EXCEPT !.ws_type.bufs = <<EmptyBuffer, Filled(c2, 2)>>],
                  [Workstation_new(W3, 2) EXCEPT !.ws_type.bufs = <<EmptyBuffer, Filled(c3, 3)>>]>>
        /\ ins1 = Inspector1_new(2)
        /\ ins2 = [Inspector2_new(n2, n3) EXCEPT
                      !.is_blocked = FALSE,
                      !.held_c2 = IF held = 2 THEN Some(Finished(2, 2)) ELSE None,
                      !.held_c3 = IF held = 3 THEN Some(Finished(3, 2)) ELSE None]
        /\ clock = 2
        /\ pc = "decide"
        /\ actor = 5
        /\ event = None
        /\ delivered = <<>>
        /\ dropped = <<>>
        /\ panic = "none"
        /\ result = None

\* self.decide_next_component(): the Option<Component> it returns is recorded
\* in result, the duration of the component popped from the supply of its kind
Decide ==
    /\ pc = "decide"
    /\ \E b \in BOOLEAN : \E kind \in {decide_next_component(World, b)} :
          IF kind = 2
          THEN \E d \in supply.dur.c2 :
                  /\ result' = Some(Some(Component_new(d, 2)))
                  /\ ins2' = [ins2 EXCEPT !.durations_c2 = @ - 1]
          ELSE IF kind = 3
          THEN \E d \in supply.dur.c3 :
                  /\ result' = Some(Some(Component_new(d, 3)))
                  /\ ins2' = [ins2 EXCEPT !.durations_c3 = @ - 1]
          ELSE /\ result' = Some(None)
               /\ UNCHANGED ins2
    /\ pc' = "decided"
    /\ UNCHANGED <<clock, ws, ins1, actor, event, delivered, dropped, panic, supply>>

SpecDecide == InitDecide /\ [][Decide]_vars

\* C22: when exactly one of the supplies of Inspector 2 is non-empty,
\* decide_next_component returns a new component of that kind with a duration
\* of that supply and pops one entry from it and none from the other, whatever
\* the buffers hold, whatever Inspector 2 holds and whatever Random::boolean
\* returns; when both supplies are empty it returns none and pops nothing.
C22_Rule1PicksTheOnlySupply ==
    [][ pc = "decide" =>
          /\ \A k \in 2..3 : \E n \in {[j \in 2..3 |-> IF j = 2 THEN ins2.durations_c2
                                                           ELSE ins2.durations_c3]} :
                (n[k] > 0 /\ n[5 - k] = 0) =>
                    /\ \E d \in (IF k = 2 THEN supply.dur.c2 ELSE supply.dur.c3) :
                          result' = Some(Some(Component_new(d, k)))
                    /\ ins2' = [ins2 EXCEPT !.durations_c2 = IF k = 2 THEN @ - 1 ELSE @,
                                            !.durations_c3 = IF k = 3 THEN @ - 1 ELSE @]
          /\ (ins2.durations_c2 = 0 /\ ins2.durations_c3 = 0) =>
                result' = Some(None) /\ ins2' = ins2
      ]_vars

\* the only supply left was C3: a C3 was chosen although the C3 buffer of WS3
\* is full and Inspector 2 still holds a finished C3
C22_ChoseC3WithFullBuffer ==
    /\ pc = "decided"
    /\ result = Some(Some(Component_new(2, 3)))
    /\ ins2.durations_c2 = 0 /\ ins2.durations_c3 = 1
    /\ BufferCount(3, 3) = 2 /\ BufferCount(2, 2) = 0
    /\ is_some(ins2.held_c3)

\* ---- the end of the run
\* C23: when the loop of run has ended because no actor has a next event,
\* the three inspection supplies are empty and no inspector holds a component.
C23_EndsExhausted ==
    pc = "done" =>
        /\ ins1.durations_c1 = 0
        /\ ins2.durations_c2 = 0 /\ ins2.durations_c3 = 0
        /\ Held(1) = {} /\ Held(2) = {}

\* the loop has ended while an inspector still holds a component or a supply
\* still has entries
C23_EndedNotExhausted ==
    /\ pc = "done"
    /\ \/ ins1.durations_c1 > 0
       \/ ins2.durations_c2 > 0 \/ ins2.durations_c3 > 0
       \/ Held(1) # {} \/ Held(2) # {}

\* ---- the assembly supplies
\* the message of the panic of Workstation::start on an empty supply
NoRemainingDuration == "WS was started but has no remaining duration"

\* the C1 that can still reach workstation k: in its C1 buffer, held by
\* Inspector 1, or not yet begun
C1Ahead(k) == C1Count(k) + Cardinality(Held(1)) + ins1.durations_c1

\* C24: in a run whose supplies all have the same number of entries, no
\* workstation is ever started with an empty assembly supply: each
\* workstation always has at least one assembly duration (left in its supply,
\* or popped for the assembly it is running) for every C1 that is in its
\* buffer or can still arrive, so start never finds the supply empty.
C24_AssemblySupplySuffices ==
    /\ panic # NoRemainingDuration
    /\ \A k \in 1..3 :
          ws[k].assembly_durations + (IF is_working(ws[k]) THEN 1 ELSE 0) >= C1Ahead(k)

\* a workstation has started its last possible assembly: every C1 of the
\* run went to it and its supply is now empty
C24_LastDurationPopped ==
    /\ pc = "loop"
    /\ supply.ws >= 2
    /\ \E k \in 1..3 :
          /\ ws[k].assembly_durations = 0
          /\ is_working(ws[k])
          /\ ws[k].products = supply.c1 - 1
          /\ unwrap(ws[k].current_duration)[1] = clock

\* ---- determinism
\* what the handlers of the next step return for the inputs in: the start
\* broadcast, or the iteration of the actor selected at its event time
StepOf(in) ==
    IF pc = "start" THEN run_start(World, in)
    ELSE run_iteration_of(World, Selected,
                          clock + unwrap(time_until_next_actor_event(World, clock))[2], in)

\* the supplies the next step pops when Random::boolean returns b
UsedBy(b) == Popped(StepOf(CHOOSE in \in Inputs({}, b) : TRUE).s)

\* every value the entries the next step pops can have
StepInputs == Inputs(UsedBy(TRUE) \cup UsedBy(FALSE), FALSE)

\* the same entries with the other boolean
Flip(in) == [in EXCEPT !.b = ~in.b]

\* the step with outcome r took the random branch of decide_next_component:
\* Inspector 2 began a component while both of its supplies were non-empty
\* and not exactly one of its two target buffers was full
BooleanDrawn(r) ==
    /\ ins2.durations_c2 > 0 /\ ins2.durations_c3 > 0
    /\ r.s.ins2.durations_c2 + r.s.ins2.durations_c3
          < ins2.durations_c2 + ins2.durations_c3
    /\ (matching_count(r.s.ws[2].ws_type, 2) = 2)
          = (matching_count(r.s.ws[3].ws_type, 3) = 2)

C26_BeginsOnlyWhatItCanPlace ==
    StepDone =>
        \A c \in Held(2) :
            /\ ~is_finished(c)
            /\ BufferCount(c.kind, c.kind) < 2

\* Inspector 2 has just begun a component of the only kind with supply left
\* while the buffer of that kind is full
C26_BeganKindWithFullBuffer ==
    /\ pc = "loop" /\ actor = 5
    /\ \E c \in Held(2) :
          /\ ~is_finished(c)
          /\ c.start = Some(clock)
          /\ BufferCount(c.kind, c.kind) = 2
          /\ unwrap(ws[c.kind].ws_type.bufs[2][2]).queue_time = Some(clock)

\* ---- the held slots of Inspector 2
\* the assertions of Inspector2::inspect_next on the slot of the kind chosen
HeldSlotOccupied ==
    {"assert!(matches!(self.held_c2, None))", "assert!(matches!(self.held_c3, None))"}

\* C27: Inspector 2 holds at most one component per slot, of the kind of the
\* slot, at most one of the components it holds is unfinished, and
\* inspect_next never finds the slot of the kind decide_next_component chose
\* occupied.
C27_HeldSlotFreeWhenChosen ==
    /\ panic \notin HeldSlotOccupied
    /\ Len(ins2.held_c2) <= 1 /\ Len(ins2.held_c3) <= 1
    /\ \A c \in Held(2) : c.kind = (IF Some(c) = ins2.held_c2 THEN 2 ELSE 3)
    /\ Cardinality({c \in Held(2) : ~is_finished(c)}) <= 1

\* Inspector 2 finished a component of the only kind with supply left, its
\* workstation rejected it, and inspect_next chose the same kind again: the
\* run aborted on the assertion that the slot is empty
C27_ChoseOccupiedSlot ==
    /\ pc = "panic" /\ actor = 5
    /\ panic \in HeldSlotOccupied
    /\ \E c \in Held(2) :
          /\ BufferCount(c.kind, c.kind) = 2
          /\ (IF c.kind = 2 THEN ins2.durations_c2 ELSE ins2.durations_c3) > 0
          /\ (IF c.kind = 2 THEN ins2.durations_c3 ELSE ins2.durations_c2) = 0

\* ---- the start of an assembly
\* the step called start on workstation k: it popped an assembly duration
Started(k) == ws'[k].assembly_durations < ws[k].assembly_durations

\* the message of the panic of Workstation::start on a running workstation
AlreadyWorking == "WS which is already working was started"

\* C28: start is never called on a workstation that is running; a step
\* starts a workstation at most once, at the time of the step, and only one
\* that was idle or whose own timer fired in the step (self-restart), whose
\* buffers are all non-empty, and that is the workstation the
\* WorkstationStarted event of the step names or the one that restarted
\* itself; a WorkstationStarted event starts the workstation it names and no
\* other.  Every assembly duration popped is that of the running assembly or
\* of a product made.
C28_StartOnlyIdleAndReady ==
    [][ /\ panic' # AlreadyWorking
        /\ pc' = "loop" =>
              /\ \A k \in 1..3 :
                    /\ Started(k) =>
                          /\ ws'[k].assembly_durations = ws[k].assembly_durations - 1
                          /\ is_working(ws'[k])
                          /\ unwrap(ws'[k].current_duration)[1] = clock'
                          /\ can_work(ws'[k].ws_type)
                          /\ ~is_working(ws[k]) \/ actor' = k
                          /\ \/ actor' = k /\ unwrap(event').type = "Assembled"
                             \/ event' = Some(WorkstationStarted(k, clock'))
                    /\ ws'[k].assembly_durations + ws'[k].products
                          + (IF is_working(ws'[k]) THEN 1 ELSE 0) = supply.ws
              /\ (is_some(event') /\ unwrap(event').type = "WorkstationStarted") =>
                    \A k \in 1..3 : Started(k) <=> k = unwrap(event').ws
      ]_vars

\* a WorkstationStarted event named WS3 and started it while WS2 was running
\* an assembly it had started earlier, which goes on
C28_StartedOnlyTheNamedWorkstation ==
    /\ pc = "loop" /\ actor \in 4..5
    /\ event = Some(WorkstationStarted(3, clock))
    /\ is_working(ws[3]) /\ unwrap(ws[3].current_duration)[1] = clock
    /\ is_working(ws[2]) /\ unwrap(ws[2].current_duration)[1] < clock
    /\ can_work(ws[1].ws_type) => is_working(ws[1])

\* ---- the completion of an assembly
\* the panics of Workstation::respond and Workstation::assemble
CompletionAborts ==
    {"WS respond called but isn't marked as working",
     "time_until_done assertion failed",
     "assemble called but WS could not work"}

\* C29: whenever the loop invokes the completion handler of a workstation,
\* the workstation is running an assembly, the clock has been set to the
\* start time of that assembly plus its duration, and each of its buffers holds
\* a component; the handler raises none of its panics and returns the
\* Assembled event of a product of the workstation's kind whose timestamp is
\* that start time plus that duration.
C29_CompletionOnlyWhenDue ==
    [][ (Selected \in 1..3) =>
          (\E a \in {Selected} : \E w \in {ws[a]} :
              /\ is_working(w)
              /\ clock' = unwrap(w.current_duration)[1] + unwrap(w.current_duration)[2]
              /\ can_work(w.ws_type)
              /\ actor' = a
              /\ panic' \notin CompletionAborts
              /\ is_some(event')
              /\ unwrap(event').type = "Assembled"
              /\ unwrap(event').ws = a
              /\ unwrap(event').product.kind = a
              /\ unwrap(event').product.timestamp
                    = unwrap(w.current_duration)[1] + unwrap(w.current_duration)[2])
      ]_vars

\* WS3 completed an assembly: the P3 carries the time of the step, the C3 it
\* consumed had been enqueued 2 minutes before, and WS3 is idle again with no
\* C3 left
C29_CompletedP3 ==
    /\ pc = "loop" /\ actor = 3
    /\ unwrap(event).type = "Assembled"
    /\ unwrap(event).product.kind = 3
    /\ unwrap(event).product.timestamp = clock
    /\ unwrap(unwrap(event).product.second).queue_time = Some(clock - 2)
    /\ ~is_working(ws[3])
    /\ BufferCount(3, 3) = 0

\* ---- a rejected enqueue
\* the step of inspector who finished the component it held and left it in
\* the inspector's hands: the workstation it was dispatched to rejected it
RejectedIn(who) ==
    /\ Selected = who + 3
    /\ pc' = "loop"
    /\ \E c \in Held(who) : finish_inspecting(c, clock') \in Held(who)'

\* C30: when the workstation rejects the component an inspector has just
\* finished, no workstation changes at all (buffers, running assembly,
\* assembly supply, products, buffer-state log), the inspector still holds
\* the component, finished at the time of the step and with no enqueue
\* time, and the step returns no event, so nothing is broadcast.
C30_RejectionChangesNothing ==
    [][ \A who \in {1, 2} :
          RejectedIn(who) =>
              /\ ws' = ws
              /\ \A c \in Held(who) :
                    \E f \in Held(who)' :
                        /\ f = [c EXCEPT !.end = Some(clock')]
                        /\ f.queue_time = None
              /\ event' = None
              /\ delivered' = <<>>
      ]_vars

\* Inspector 1 finished a C1 while every C1 buffer was full: it still holds
\* it, with no enqueue time, and no event was returned
C30_RejectedC1StillHeld ==
    /\ pc = "loop" /\ actor = 4
    /\ \A k \in 1..3 : C1Count(k) = 2
    /\ \E c \in Held(1) : c.end = Some(clock) /\ c.queue_time = None
    /\ event = None
    /\ \A k \in 1..3 : \A i \in 1..2 :
          unwrap(ws[k].ws_type.bufs[1][i]).queue_time # Some(clock)

\* ---- the slot an assembly takes from
\* the component of product p that came out of buffer b
FromBuffer(p, b) == IF b = 1 THEN p.first ELSE unwrap(p.second)

\* C31: when the timer of a workstation fires and one of its buffers holds two
\* components, the assembly consumes the one in the second slot, which was
\* enqueued later, and the one in the first slot stays in place; when the
\* buffer holds one component, that one is consumed.
C31_TakesSecondSlotFirst ==
    [][ (Selected \in 1..3) =>
          (\E a \in {Selected} :
              /\ is_some(event') /\ unwrap(event').type = "Assembled"
              /\ \A b \in DOMAIN ws[a].ws_type.bufs :
                    \E buf \in {ws[a].ws_type.bufs[b]} :
                    \E c \in {FromBuffer(unwrap(event').product, b)} :
                       IF present_count(buf) = 2
                       THEN /\ c = unwrap(buf[2])
                            /\ c # unwrap(buf[1])
                            /\ unwrap(c.queue_time) > unwrap(unwrap(buf[1]).queue_time)
                            /\ (pc' = "loop" => ws'[a].ws_type.bufs[b][1] = buf[1])
                       ELSE /\ present_count(buf) = 1
                            /\ c = unwrap(buf[1]))
      ]_vars

\* WS3 assembled a P3 from the later of two C1 in its buffer: the C1 enqueued
\* first is still in the first slot, and the second slot is empty
C31_LaterC1Consumed ==
    /\ pc = "loop" /\ actor = 3
    /\ is_some(event) /\ unwrap(event).type = "Assembled"
    /\ unwrap(event).product.kind = 3
    /\ is_some(ws[3].ws_type.bufs[1][1]) /\ is_none(ws[3].ws_type.bufs[1][2])
    /\ unwrap(unwrap(ws[3].ws_type.bufs[1][1]).queue_time)
          < unwrap(unwrap(event).product.first.queue_time)

\* ---- the life cycle of a component
\* the components waiting in the buffers of the workstations
Buffered ==
    UNION { UNION { Contents(ws[k].ws_type.bufs[b]) : b \in DOMAIN ws[k].ws_type.bufs } :
               k \in 1..3 }

\* the components of the product of the last event, if it is an assembly
ProductComponents ==
    IF is_some(event) /\ unwrap(event).type = "Assembled"
    THEN {unwrap(event).product.first} \cup Contents(<<unwrap(event).product.second, None>>)
    ELSE {}

\* c was inspected, then enqueued, in this order, not later than ts
Ordered(c, ts) ==
    /\ is_some(c.start) /\ is_some(c.end) /\ is_some(c.queue_time)
    /\ unwrap(c.start) <= unwrap(c.end)
    /\ unwrap(c.end) <= unwrap(c.queue_time)
    /\ unwrap(c.queue_time) <= ts

\* C32: every component stored in a workstation buffer is finished and has an
\* enqueue time, and for every component of every assembled product
\* inspection_start <= inspection_end <= enqueue_time <= product timestamp.
C32_LifecycleOrdered ==
    /\ \A c \in Buffered : is_finished(c) /\ is_some(c.queue_time)
    /\ \A c \in ProductComponents : Ordered(c, unwrap(event).product.timestamp)

\* a P2 was assembled from a C1 placed when its inspection ended and a C2 that
\* waited in its buffer: each of the four times of the C2 is later than the
\* one before
C32_AssembledFromWaitingC2 ==
    /\ pc = "loop"
    /\ is_some(event) /\ unwrap(event).type = "Assembled"
    /\ unwrap(event).product.kind = 2
    /\ \E c \in {unwrap(unwrap(event).product.second)} :
          /\ unwrap(c.start) < unwrap(c.end)
          /\ unwrap(c.queue_time) < unwrap(event).product.timestamp
    /\ Buffered # {}

\* ---- termination
\* the completions still possible: an assembly for every assembly duration
\* left or running, an inspection for every inspection duration left or running
Unfinished(who) == Cardinality({c \in Held(who) : ~is_finished(c)})

Rank ==
    (ws[1].assembly_durations + ws[2].assembly_durations + ws[3].assembly_durations)
    + Cardinality({k \in 1..3 : is_working(ws[k])})
    + (ins1.durations_c1 + ins2.durations_c2 + ins2.durations_c3)
    + (Unfinished(1) + Unfinished(2))

\* C33: for every finite set of inspection and assembly duration supplies with
\* positive durations, after finitely many iterations (each one uses up one of
\* the finitely many completions left) the event loop reaches a state in
\* which no actor has a finite next event, and run then returns the final
\* clock value minus the start time: no step aborts the run.
C33_LoopEndsAndReturns ==
    [][ (supply.c1 > 0 /\ supply.c2 > 0 /\ supply.c3 > 0 /\ supply.ws > 0) =>
          /\ pc' # "panic"
          /\ (pc = "loop" /\ pc' = "loop") => (Rank' < Rank /\ Rank' >= 0)
          /\ (pc' = "done") => (Selected = 0 /\ clock' = clock)
      ]_vars

\* a run constructed with non-empty supplies was aborted by a panic in an
\* iteration of the loop: run does not return
C33_AbortedInLoop ==
    /\ pc = "panic" /\ panic # "none"
    /\ actor # 0 /\ clock > 0
    /\ supply.c1 > 0 /\ supply.c2 > 0 /\ supply.c3 > 0 /\ supply.ws > 0

\* ---- the clock
\* no actor is scheduled before the clock
NoEventBeforeClock ==
    \A a \in 1..NActors :
        \E d \in {duration_until_next_event(World, a, clock)} :
            is_none(d) \/ unwrap(d) >= 0

\* C34: the clock never decreases: at every selection the time to the next
\* event of every actor is absent or >= 0 (no unblocked inspector and no
\* running workstation carries a scheduled time earlier than the clock), so
\* the event times the loop handles are non-decreasing.
C34_ClockNeverDecreases ==
    [][ /\ clock' >= clock
        /\ (pc' = "loop") => NoEventBeforeClock'
      ]_vars

\* at a selection blocked Inspector 1 still carries the finish time of the
\* component it could not place, a time before the clock, and an actor has a
\* next event
C34_StaleTimeOfBlockedInspector ==
    /\ pc = "loop" /\ Selected # 0
    /\ ins1.is_blocked
    /\ is_some(ins1.next_finish_time) /\ unwrap(ins1.next_finish_time) < clock

\* ---- liveness of Inspector 1
\* the runs in which Inspector 1 falls behind, with run executing its next
\* step for as long as there is one: the loop is left when no actor has a next
\* event, and the start broadcast or an iteration is executed otherwise.  The
\* second condition is weak fairness of these steps with its enabling
\* condition written out: one of them is possible, and changes the state,
\* exactly at the start and while the loop has an actor to select.
SpecBacklogLive ==
    /\ InitBacklog /\ [][Next]_vars
    /\ WF_vars(Terminate)
    /\ \/ []<>(pc # "start" /\ Selected = 0)
       \/ []<><<RunStart \/ RespondWorkstation \/ RespondInspector>>_vars

\* Inspector 1 is blocked while the loop runs
Inspector1Blocked == pc = "loop" /\ ins1.is_blocked

\* WS1 has just assembled a P1 and the retry of Inspector 1 placed the C1 it
\* held: a C1 finished earlier was enqueued at this time, and Inspector 1 is
\* not blocked
Inspector1Unblocked ==
    /\ actor = 1
    /\ is_some(event) /\ unwrap(event).type = "Assembled" /\ unwrap(event).product.kind = 1
    /\ ~ins1.is_blocked /\ ~HoldsRejected(1)
    /\ \E c \in Buffered :
          c.kind = 1 /\ c.queue_time = Some(clock) /\ unwrap(c.end) < clock

\* C35: whenever Inspector 1 becomes blocked, workstation 1 is running an
\* assembly, so an Assembled(P1) event eventually occurs, and Inspector 1 is
\* eventually unblocked and the component it held placed.
C35_BlockedInspector1IsReleased ==
    /\ [](Inspector1Blocked => is_working(ws[1]))
    /\ (Inspector1Blocked ~> Inspector1Unblocked)

\* Inspector 1 is blocked holding a finished C1, every C1 buffer is full and
\* WS1 is running
C35_BlockedWhileWS1Runs ==
    /\ Inspector1Blocked /\ HoldsRejected(1)
    /\ \A k \in 1..3 : C1Count(k) = 2
    /\ is_working(ws[1])
    /\ Selected # 0

\* ---- the retry of Inspector 1
\* the world in which the Assembled(P1) event of the iteration is broadcast:
\* WS1 has assembled at time now
AfterP1(now) ==
    respond(World, 1, now, CHOOSE in \in Inputs({}, FALSE) : TRUE).s

\* C36: whenever blocked Inspector 1 retries placement in response to an
\* Assembled(P1) event, the enqueue is accepted (a C1 buffer has a free slot),
\* Inspector 1 leaves the blocked state in that same step, and the retry
\* never returns Fail.
C36_RetryOfInspector1Accepted ==
    [][ (Inspector1Blocked /\ Selected = 1) =>
          (\E now \in {clock'} : \E s1 \in {AfterP1(now)} :
           \E c \in {unwrap(ins1.held_component)} :
              /\ is_some(event') /\ unwrap(event').type = "Assembled"
              /\ unwrap(event').product.kind = 1
              /\ 4 \in {delivered'[i] : i \in DOMAIN delivered'}
              /\ \E k \in 1..3 : c1_in_waiting(s1.ws[k].ws_type) < 2
              /\ Inspector1_dispatch_component(s1, 0, now).ok
              /\ pc' = "loop"
              /\ ~ins1'.is_blocked
              /\ ins1'.held_component # Some(c)
              /\ \E k \in 1..3 :
                    set_enqueued(c, now) \in Contents(ws'[k].ws_type.bufs[1]))
      ]_vars

\* the retry of Inspector 1 was accepted: the C1 it held since an earlier time
\* is in a C1 buffer, enqueued at the time of the P1, and Inspector 1 is
\* inspecting the next C1
C36_RetryPlacedTheHeldC1 ==
    /\ pc = "loop" /\ actor = 1
    /\ is_some(event) /\ unwrap(event).type = "Assembled"
    /\ ~ins1.is_blocked
    /\ \E k \in 1..3 : \E c \in Contents(ws[k].ws_type.bufs[1]) :
          c.queue_time = Some(clock) /\ unwrap(c.end) < clock
    /\ \E c \in Held(1) : ~is_finished(c) /\ c.start = Some(clock)

\* ---- no component in two places
\* every place a component can be in, as an Option<Component>: the held slots
\* of the inspectors, the slots of the buffers, and the product just assembled
Places ==
    <<ins1.held_component, ins2.held_c2, ins2.held_c3,
      ws[1].ws_type.bufs[1][1], ws[1].ws_type.bufs[1][2],
      ws[2].ws_type.bufs[1][1], ws[2].ws_type.bufs[1][2],
      ws[2].ws_type.bufs[2][1], ws[2].ws_type.bufs[2][2],
      ws[3].ws_type.bufs[1][1], ws[3].ws_type.bufs[1][2],
      ws[3].ws_type.bufs[2][1], ws[3].ws_type.bufs[2][2],
      IF is_some(event) /\ unwrap(event).type = "Assembled"
      THEN Some(unwrap(event).product.first) ELSE None,
      IF is_some(event) /\ unwrap(event).type = "Assembled"
      THEN unwrap(event).product.second ELSE None>>

Occupied == {i \in DOMAIN Places : is_some(Places[i])}

\* what tells one inspected component from another: an inspector begins one
\* component of a kind at a time
Identity(c) == <<c.kind, unwrap(c.start)>>

\* the components held or waiting in a buffer
HeldOrBuffered == {Identity(c) : c \in Held(1) \cup Held(2) \cup Buffered}

\* C37: no component is duplicated. In every reachable state each inspected
\* component is in exactly one place (held by its inspector, in one buffer
\* slot, or inside one product), never both held by an inspector and present
\* in a buffer, and never part of two products: a component that left the
\* buffers for a product does not come back, every component that appears is
\* one whose inspection begins at that time.
C37_NoComponentDuplicated ==
    /\ [](StepDone =>
            /\ Cardinality({Identity(unwrap(Places[i])) : i \in Occupied})
                  = Cardinality(Occupied)
            /\ \A who \in {1, 2} :
                  Begun(who) = Placed(who) + Len(held_components(World, who, FALSE)))
    /\ [][ StepDone' =>
             \A id \in HeldOrBuffered' \ HeldOrBuffered : id[2] = clock' ]_vars

\* WS3 has assembled a P3 while each inspector holds a component and
\* components wait in the buffers: the two components of the product are in no
\* other place
C37_ProductApartFromTheRest ==
    /\ pc = "loop" /\ actor = 3
    /\ is_some(event) /\ unwrap(event).type = "Assembled"
    /\ Held(1) # {} /\ Held(2) # {}
    /\ Cardinality(Buffered) >= 2
    /\ Identity(unwrap(event).product.first) \notin HeldOrBuffered
    /\ Identity(unwrap(unwrap(event).product.second)) \notin HeldOrBuffered

\* ---- the C1 of workstation 1
\* the C1 waiting in the buffer of WS1
WaitingAtWS1 == present_count(ws[1].ws_type.bufs[1])

\* the C1 enqueued at WS1 so far: a snapshot of the buffers is logged for
\* every accepted enqueue and for every assembly
EnqueuedAtWS1 == ws[1].buffer_states - ws[1].products

====
